---------------------------- MODULE Spec2Model ----------------------------
(***************************************************************************)
(* A model of the risk-assessment and session core of MannMitra:           *)
(*   - SessionManager (src/src/services/geminiAI.ts, lines 434-1330),      *)
(*   - AIOrchestrator (src/src/services/aiOrchestrator.ts),                *)
(*   - assessCrisisLevel (src/src/utils/crisisDetection.ts),               *)
(*   - EmotionDetectionService.analyzeImage (src/unnamed/part_003).        *)
(*                                                                         *)
(* Text is modelled as the code sees it: a string is the tuple of its      *)
(* UTF-16 code units, toLowerCase and String.prototype.includes are        *)
(* computed on those tuples, and every lexicon is the list in the source.  *)
(* Numbers the code keeps in [0,1] are kept in hundredths (0.05 is 5).     *)
(* An object whose field is absent is a record without that field, so a    *)
(* comparison with an absent field is false, as in JavaScript.             *)
(***************************************************************************)
EXTENDS Integers, Sequences, FiniteSets, TLC

VARIABLES
  activeSessions,   \* SessionManager.activeSessions: the ids (keys) of the map
  sessions,         \* the UserSession objects ever created, by session id
  userPlans,        \* SessionManager.userPlans: userId -> plan object id
  plans,            \* the TherapeuticPlan objects ever created, by plan id
  sessionHistory,   \* SessionManager.sessionHistory: userId -> sequence of session ids
  realTimeAnalysis, \* SessionManager.realTimeAnalysis: the ids (keys) of the map
  calls,            \* the async calls suspended at an await, by call id
  returned,         \* what the call that completed last gave its caller
  crisisEvents,     \* every result handleCrisisIntervention has returned so far
  nextId,           \* the source of fresh session, plan and call ids
  now,              \* the clock that new Date() reads, in seconds
  text,             \* input of the function under test (unit specifications)
  result,           \* output of the function under test (unit specifications)
  journey,          \* emotionalJourney of the session under test (SpecJourney)
  metrics,          \* progressMetrics of the session under test (SpecMetrics)
  chat              \* the state of the AICompanion component (SpecChat)

vars == <<activeSessions, sessions, userPlans, plans, sessionHistory,
          realTimeAnalysis, calls, returned, crisisEvents, nextId, now,
          text, result, journey, metrics, chat>>

sessionVars == <<activeSessions, sessions, userPlans, plans, sessionHistory,
                 realTimeAnalysis, calls, returned, crisisEvents, nextId>>

unitVars == <<text, result, journey, metrics, chat>>

-----------------------------------------------------------------------------
(* Lexicons, copied from the source. *)

\* crisisDetection.ts CRISIS_KEYWORDS, flattened in the order english, hindi, mixed
CRISIS_KEYWORDS ==
  <<
    <<115, 117, 105, 99, 105, 100, 101>>,  \* 'suicide'
    <<107, 105, 108, 108, 32, 109, 121, 115, 101, 108, 102>>,  \* 'kill myself'
    <<101, 110, 100, 32, 105, 116, 32, 97, 108, 108>>,  \* 'end it all'
    <<110, 111, 32, 112, 111, 105, 110, 116, 32, 108, 105, 118, 105, 110, 103>>,  \* 'no point living'
    <<119, 97, 110, 116, 32, 116, 111, 32, 100, 105, 101>>,  \* 'want to die'
    <<104, 117, 114, 116, 32, 109, 121, 115, 101, 108, 102>>,  \* 'hurt myself'
    <<115, 101, 108, 102, 32, 104, 97, 114, 109>>,  \* 'self harm'
    <<99, 117, 116, 32, 109, 121, 115, 101, 108, 102>>,  \* 'cut myself'
    <<111, 118, 101, 114, 100, 111, 115, 101>>,  \* 'overdose'
    <<106, 117, 109, 112, 32, 111, 102, 102>>,  \* 'jump off'
    <<104, 97, 110, 103, 32, 109, 121, 115, 101, 108, 102>>,  \* 'hang myself'
    <<110, 111, 116, 32, 119, 111, 114, 116, 104, 32, 108, 105, 118, 105, 110, 103>>,  \* 'not worth living'
    <<98, 101, 116, 116, 101, 114, 32, 111, 102, 102, 32, 100, 101, 97, 100>>,  \* 'better off dead'
    <<101, 110, 100, 32, 109, 121, 32, 108, 105, 102, 101>>,  \* 'end my life'
    <<107, 105, 108, 108, 32, 109, 101>>,  \* 'kill me'
    <<119, 97, 110, 116, 32, 116, 111, 32, 100, 105, 115, 97, 112, 112, 101, 97, 114>>,  \* 'want to disappear'
    <<99, 97, 110, 39, 116, 32, 103, 111, 32, 111, 110>>,  \* 'can't go on'
    <<103, 105, 118, 101, 32, 117, 112, 32, 111, 110, 32, 108, 105, 102, 101>>,  \* 'give up on life'
    <<2310, 2340, 2381, 2350, 2361, 2340, 2381, 2351, 2366>>,  \* 'आत्महत्या'
    <<2350, 2352, 2344, 2366, 32, 2330, 2366, 2361, 2340, 2366>>,  \* 'मरना चाहता'
    <<2332, 2368, 2344, 2366, 32, 2344, 2361, 2368, 2306, 32, 2330, 2366, 2361, 2340, 2366>>,  \* 'जीना नहीं चाहता'
    <<2326, 2369, 2342, 32, 2325, 2379, 32, 2344, 2369, 2325, 2360, 2366, 2344>>,  \* 'खुद को नुकसान'
    <<2350, 2380, 2340, 32, 2330, 2366, 2361, 2367, 2319>>,  \* 'मौत चाहिए'
    <<2332, 2368, 2344, 2375, 32, 2325, 2366, 32, 2350, 2340, 2354, 2348, 32, 2344, 2361, 2368, 2306>>,  \* 'जीने का मतलब नहीं'
    <<2326, 2369, 2342, 32, 2325, 2379, 32, 2350, 2366, 2352, 2344, 2366>>,  \* 'खुद को मारना'
    <<2331, 2379, 2337, 2364, 32, 2342, 2375, 2344, 2366, 32, 2330, 2366, 2361, 2340, 2366>>,  \* 'छोड़ देना चाहता'
    <<2332, 2368, 2357, 2344, 32, 2360, 2350, 2366, 2346, 2381, 2340>>,  \* 'जीवन समाप्त'
    <<2350, 2352, 2344, 2375, 32, 2325, 2366, 32, 2350, 2344>>,  \* 'मरने का मन'
    <<2332, 2368, 2344, 2375, 32, 2325, 2368, 32, 2311, 2330, 2381, 2331, 2366, 32, 2344, 2361, 2368, 2306>>,  \* 'जीने की इच्छा नहीं'
    <<2310, 2340, 2381, 2350, 2361, 2340, 2381, 2351, 2366, 32, 2325, 2352, 2344, 2366>>,  \* 'आत्महत्या करना'
    <<115, 117, 105, 99, 105, 100, 101, 32, 2325, 2352, 2344, 2366>>,  \* 'suicide करना'
    <<2350, 2352, 2344, 2366, 32, 119, 97, 110, 116>>,  \* 'मरना want'
    <<108, 105, 102, 101, 32, 101, 110, 100, 32, 2325, 2352, 2344, 2366>>,  \* 'life end करना'
    <<2326, 2369, 2342, 32, 2325, 2379, 32, 104, 117, 114, 116>>,  \* 'खुद को hurt'
    <<100, 101, 97, 116, 104, 32, 2330, 2366, 2361, 2367, 2319>>,  \* 'death चाहिए'
    <<2332, 2368, 2344, 2366, 32, 2344, 2361, 2368, 2306, 32, 119, 97, 110, 116>>,  \* 'जीना नहीं want'
    <<107, 105, 108, 108, 32, 109, 121, 115, 101, 108, 102, 32, 2325, 2352, 2344, 2366>>  \* 'kill myself करना'
  >>

\* crisisDetection.ts HIGH_RISK_INDICATORS, flattened in the order english, hindi
HIGH_RISK_INDICATORS ==
  <<
    <<104, 111, 112, 101, 108, 101, 115, 115>>,  \* 'hopeless'
    <<119, 111, 114, 116, 104, 108, 101, 115, 115>>,  \* 'worthless'
    <<116, 114, 97, 112, 112, 101, 100>>,  \* 'trapped'
    <<98, 117, 114, 100, 101, 110>>,  \* 'burden'
    <<97, 108, 111, 110, 101, 32, 102, 111, 114, 101, 118, 101, 114>>,  \* 'alone forever'
    <<110, 111, 32, 101, 115, 99, 97, 112, 101>>,  \* 'no escape'
    <<99, 97, 110, 39, 116, 32, 99, 111, 112, 101>>,  \* 'can't cope'
    <<117, 110, 98, 101, 97, 114, 97, 98, 108, 101, 32, 112, 97, 105, 110>>,  \* 'unbearable pain'
    <<110, 111, 116, 104, 105, 110, 103, 32, 109, 97, 116, 116, 101, 114, 115>>,  \* 'nothing matters'
    <<101, 109, 112, 116, 121, 32, 105, 110, 115, 105, 100, 101>>,  \* 'empty inside'
    <<108, 111, 115, 116, 32, 101, 118, 101, 114, 121, 116, 104, 105, 110, 103>>,  \* 'lost everything'
    <<110, 111, 32, 102, 117, 116, 117, 114, 101>>,  \* 'no future'
    <<112, 111, 105, 110, 116, 108, 101, 115, 115>>,  \* 'pointless'
    <<2344, 2367, 2352, 2366, 2358>>,  \* 'निराश'
    <<2348, 2375, 2325, 2366, 2352>>,  \* 'बेकार'
    <<2347, 2306, 2360, 2366, 32, 2361, 2369, 2310>>,  \* 'फंसा हुआ'
    <<2348, 2379, 2333>>,  \* 'बोझ'
    <<2361, 2350, 2375, 2358, 2366, 32, 2309, 2325, 2375, 2354, 2366>>,  \* 'हमेशा अकेला'
    <<2325, 2379, 2312, 32, 2352, 2366, 2360, 2381, 2340, 2366, 32, 2344, 2361, 2368, 2306>>,  \* 'कोई रास्ता नहीं'
    <<2360, 2361, 32, 2344, 2361, 2368, 2306, 32, 2360, 2325, 2340, 2366>>,  \* 'सह नहीं सकता'
    <<2309, 2360, 2361, 2344, 2368, 2351, 32, 2342, 2352, 2381, 2342>>,  \* 'असहनीय दर्द'
    <<2325, 2369, 2331, 32, 2350, 2340, 2354, 2348, 32, 2344, 2361, 2368, 2306>>,  \* 'कुछ मतलब नहीं'
    <<2309, 2306, 2342, 2352, 32, 2360, 2375, 32, 2326, 2366, 2354, 2368>>,  \* 'अंदर से खाली'
    <<2360, 2348, 32, 2325, 2369, 2331, 32, 2326, 2379, 32, 2342, 2367, 2351, 2366>>,  \* 'सब कुछ खो दिया'
    <<2325, 2379, 2312, 32, 2349, 2357, 2367, 2359, 2381, 2351, 32, 2344, 2361, 2368, 2306>>,  \* 'कोई भविष्य नहीं'
    <<2357, 2381, 2351, 2352, 2381, 2341>>  \* 'व्यर्थ'
  >>

kwPlan ==  \* 'plan'
  <<112, 108, 97, 110>>

kwHurt ==  \* 'hurt'
  <<104, 117, 114, 116>>

kwEnd ==  \* 'end'
  <<101, 110, 100>>

kwTonight ==  \* 'tonight'
  <<116, 111, 110, 105, 103, 104, 116>>

kwToday ==  \* 'today'
  <<116, 111, 100, 97, 121>>

kwNow ==  \* 'now'
  <<110, 111, 119>>

\* SessionManager.assessCurrentRisk crisisKeywords
crisisKeywords ==
  <<
    <<115, 117, 105, 99, 105, 100, 101>>,  \* 'suicide'
    <<107, 105, 108, 108, 32, 109, 121, 115, 101, 108, 102>>,  \* 'kill myself'
    <<101, 110, 100, 32, 105, 116, 32, 97, 108, 108>>,  \* 'end it all'
    <<110, 111, 32, 112, 111, 105, 110, 116>>,  \* 'no point'
    <<103, 105, 118, 101, 32, 117, 112>>,  \* 'give up'
    <<2310, 2340, 2381, 2350, 2361, 2340, 2381, 2351, 2366>>,  \* 'आत्महत्या'
    <<2350, 2352, 2344, 2366, 32, 2330, 2366, 2361, 2340, 2366>>,  \* 'मरना चाहता'
    <<2332, 2368, 2344, 2375, 32, 2325, 2366, 32, 2350, 2344, 32, 2344, 2361, 2368, 2306>>  \* 'जीने का मन नहीं'
  >>

kwFamily ==  \* 'family'
  <<102, 97, 109, 105, 108, 121>>

kwFriends ==  \* 'friends'
  <<102, 114, 105, 101, 110, 100, 115>>

\* AIOrchestrator.assessRiskFactors riskIndicators.suicidalIdeation
risk_suicidalIdeation ==
  <<
    <<115, 117, 105, 99, 105, 100, 101>>,  \* 'suicide'
    <<107, 105, 108, 108, 32, 109, 121, 115, 101, 108, 102>>,  \* 'kill myself'
    <<101, 110, 100, 32, 105, 116, 32, 97, 108, 108>>,  \* 'end it all'
    <<2310, 2340, 2381, 2350, 2361, 2340, 2381, 2351, 2366>>,  \* 'आत्महत्या'
    <<2350, 2352, 2344, 2366, 32, 2330, 2366, 2361, 2340, 2366>>  \* 'मरना चाहता'
  >>

\* AIOrchestrator.assessRiskFactors riskIndicators.selfHarm
risk_selfHarm ==
  <<
    <<104, 117, 114, 116, 32, 109, 121, 115, 101, 108, 102>>,  \* 'hurt myself'
    <<99, 117, 116>>,  \* 'cut'
    <<104, 97, 114, 109>>,  \* 'harm'
    <<2326, 2369, 2342, 32, 2325, 2379, 32, 2344, 2369, 2325, 2360, 2366, 2344>>  \* 'खुद को नुकसान'
  >>

\* AIOrchestrator.assessRiskFactors riskIndicators.hopelessness
risk_hopelessness ==
  <<
    <<110, 111, 32, 104, 111, 112, 101>>,  \* 'no hope'
    <<112, 111, 105, 110, 116, 108, 101, 115, 115>>,  \* 'pointless'
    <<110, 111, 32, 102, 117, 116, 117, 114, 101>>,  \* 'no future'
    <<2325, 2379, 2312, 32, 2313, 2350, 2381, 2350, 2368, 2342, 32, 2344, 2361, 2368, 2306>>,  \* 'कोई उम्मीद नहीं'
    <<2348, 2375, 2325, 2366, 2352>>  \* 'बेकार'
  >>

\* AIOrchestrator.assessRiskFactors riskIndicators.isolation
risk_isolation ==
  <<
    <<97, 108, 111, 110, 101>>,  \* 'alone'
    <<110, 111, 32, 111, 110, 101>>,  \* 'no one'
    <<108, 111, 110, 101, 108, 121>>,  \* 'lonely'
    <<2309, 2325, 2375, 2354, 2366>>,  \* 'अकेला'
    <<2325, 2379, 2312, 32, 2344, 2361, 2368, 2306>>  \* 'कोई नहीं'
  >>

\* AIOrchestrator.assessRiskFactors riskIndicators.substanceUse
risk_substanceUse ==
  <<
    <<100, 114, 105, 110, 107>>,  \* 'drink'
    <<100, 114, 117, 103, 115>>,  \* 'drugs'
    <<97, 108, 99, 111, 104, 111, 108>>,  \* 'alcohol'
    <<2358, 2352, 2366, 2348>>,  \* 'शराब'
    <<2344, 2358, 2366>>  \* 'नशा'
  >>

\* AIOrchestrator.assessRiskFactors protectiveFactors.socialSupport
protect_socialSupport ==
  <<
    <<102, 114, 105, 101, 110, 100, 115>>,  \* 'friends'
    <<102, 97, 109, 105, 108, 121>>,  \* 'family'
    <<115, 117, 112, 112, 111, 114, 116>>,  \* 'support'
    <<2342, 2379, 2360, 2381, 2340>>,  \* 'दोस्त'
    <<2346, 2352, 2367, 2357, 2366, 2352>>,  \* 'परिवार'
    <<2360, 2361, 2366, 2352, 2366>>  \* 'सहारा'
  >>

\* AIOrchestrator.assessRiskFactors protectiveFactors.copingStrategies
protect_copingStrategies ==
  <<
    <<109, 101, 100, 105, 116, 97, 116, 105, 111, 110>>,  \* 'meditation'
    <<101, 120, 101, 114, 99, 105, 115, 101>>,  \* 'exercise'
    <<109, 117, 115, 105, 99>>,  \* 'music'
    <<2343, 2381, 2351, 2366, 2344>>,  \* 'ध्यान'
    <<2357, 2381, 2351, 2366, 2351, 2366, 2350>>  \* 'व्यायाम'
  >>

\* AIOrchestrator.assessRiskFactors protectiveFactors.futureOrientation
protect_futureOrientation ==
  <<
    <<102, 117, 116, 117, 114, 101>>,  \* 'future'
    <<103, 111, 97, 108, 115>>,  \* 'goals'
    <<100, 114, 101, 97, 109, 115>>,  \* 'dreams'
    <<2349, 2357, 2367, 2359, 2381, 2351>>,  \* 'भविष्य'
    <<2360, 2346, 2344, 2375>>  \* 'सपने'
  >>

\* AIOrchestrator.assessRiskFactors protectiveFactors.helpSeeking
protect_helpSeeking ==
  <<
    <<104, 101, 108, 112>>,  \* 'help'
    <<116, 104, 101, 114, 97, 112, 121>>,  \* 'therapy'
    <<99, 111, 117, 110, 115, 101, 108, 105, 110, 103>>,  \* 'counseling'
    <<2350, 2342, 2342>>,  \* 'मदद'
    <<2360, 2354, 2366, 2361>>  \* 'सलाह'
  >>

\* AIOrchestrator.analyzeEmotionalContent emotionalKeywords.anxiety
emo_anxiety ==
  <<
    <<119, 111, 114, 114, 105, 101, 100>>,  \* 'worried'
    <<110, 101, 114, 118, 111, 117, 115>>,  \* 'nervous'
    <<115, 99, 97, 114, 101, 100>>,  \* 'scared'
    <<112, 97, 110, 105, 99>>,  \* 'panic'
    <<2330, 2367, 2306, 2340, 2366>>,  \* 'चिंता'
    <<2328, 2348, 2352, 2366, 2361, 2335>>  \* 'घबराहट'
  >>

\* AIOrchestrator.analyzeEmotionalContent emotionalKeywords.depression
emo_depression ==
  <<
    <<115, 97, 100>>,  \* 'sad'
    <<104, 111, 112, 101, 108, 101, 115, 115>>,  \* 'hopeless'
    <<101, 109, 112, 116, 121>>,  \* 'empty'
    <<119, 111, 114, 116, 104, 108, 101, 115, 115>>,  \* 'worthless'
    <<2313, 2342, 2366, 2360>>,  \* 'उदास'
    <<2344, 2367, 2352, 2366, 2358>>  \* 'निराश'
  >>

\* AIOrchestrator.analyzeEmotionalContent emotionalKeywords.stress
emo_stress ==
  <<
    <<111, 118, 101, 114, 119, 104, 101, 108, 109, 101, 100>>,  \* 'overwhelmed'
    <<112, 114, 101, 115, 115, 117, 114, 101>>,  \* 'pressure'
    <<98, 117, 114, 100, 101, 110>>,  \* 'burden'
    <<2340, 2344, 2366, 2357>>,  \* 'तनाव'
    <<2342, 2348, 2366, 2357>>  \* 'दबाव'
  >>

\* AIOrchestrator.analyzeEmotionalContent emotionalKeywords.anger
emo_anger ==
  <<
    <<102, 114, 117, 115, 116, 114, 97, 116, 101, 100>>,  \* 'frustrated'
    <<97, 110, 103, 114, 121>>,  \* 'angry'
    <<109, 97, 100>>,  \* 'mad'
    <<105, 114, 114, 105, 116, 97, 116, 101, 100>>,  \* 'irritated'
    <<2327, 2369, 2360, 2381, 2360, 2366>>,  \* 'गुस्सा'
    <<2344, 2366, 2352, 2366, 2332>>  \* 'नाराज'
  >>

\* AIOrchestrator.analyzeEmotionalContent emotionalKeywords.joy
emo_joy ==
  <<
    <<104, 97, 112, 112, 121>>,  \* 'happy'
    <<101, 120, 99, 105, 116, 101, 100>>,  \* 'excited'
    <<103, 111, 111, 100>>,  \* 'good'
    <<103, 114, 101, 97, 116>>,  \* 'great'
    <<2326, 2369, 2358>>,  \* 'खुश'
    <<2309, 2330, 2381, 2331, 2366>>  \* 'अच्छा'
  >>

\* AIOrchestrator.analyzeCulturalContext culturalIndicators.familyReferences
cult_familyReferences ==
  <<
    <<102, 97, 109, 105, 108, 121>>,  \* 'family'
    <<112, 97, 114, 101, 110, 116, 115>>,  \* 'parents'
    <<109, 111, 109>>,  \* 'mom'
    <<100, 97, 100>>,  \* 'dad'
    <<2346, 2352, 2367, 2357, 2366, 2352>>,  \* 'परिवार'
    <<2350, 2366, 2340, 2366, 45, 2346, 2367, 2340, 2366>>,  \* 'माता-पिता'
    <<2350, 2350, 2381, 2350, 2368>>,  \* 'मम्मी'
    <<2346, 2366, 2346, 2366>>  \* 'पापा'
  >>

\* AIOrchestrator.analyzeCulturalContext culturalIndicators.academicPressure
cult_academicPressure ==
  <<
    <<115, 116, 117, 100, 105, 101, 115>>,  \* 'studies'
    <<101, 120, 97, 109>>,  \* 'exam'
    <<109, 97, 114, 107, 115>>,  \* 'marks'
    <<99, 97, 114, 101, 101, 114>>,  \* 'career'
    <<2346, 2338, 2364, 2366, 2312>>,  \* 'पढ़ाई'
    <<2346, 2352, 2368, 2325, 2381, 2359, 2366>>,  \* 'परीक्षा'
    <<2344, 2306, 2348, 2352>>  \* 'नंबर'
  >>

\* AIOrchestrator.analyzeCulturalContext culturalIndicators.socialPressure
cult_socialPressure ==
  <<
    <<115, 111, 99, 105, 101, 116, 121>>,  \* 'society'
    <<108, 111, 103, 32, 107, 121, 97, 32, 107, 97, 104, 101, 110, 103, 101>>,  \* 'log kya kahenge'
    <<112, 101, 111, 112, 108, 101, 32, 115, 97, 121>>,  \* 'people say'
    <<2360, 2350, 2366, 2332>>,  \* 'समाज'
    <<2354, 2379, 2327, 32, 2325, 2381, 2351, 2366, 32, 2325, 2361, 2375, 2306, 2327, 2375>>  \* 'लोग क्या कहेंगे'
  >>

\* AIOrchestrator.analyzeCulturalContext culturalIndicators.religiousReferences
cult_religiousReferences ==
  <<
    <<103, 111, 100>>,  \* 'god'
    <<112, 114, 97, 121, 101, 114>>,  \* 'prayer'
    <<116, 101, 109, 112, 108, 101>>,  \* 'temple'
    <<2349, 2327, 2357, 2366, 2344>>,  \* 'भगवान'
    <<2346, 2381, 2352, 2366, 2352, 2381, 2341, 2344, 2366>>,  \* 'प्रार्थना'
    <<2350, 2306, 2342, 2367, 2352>>  \* 'मंदिर'
  >>

\* SessionManager.identifyProtectiveFactors
kwParivar ==  \* 'परिवार'
  <<2346, 2352, 2367, 2357, 2366, 2352>>

kwDost ==  \* 'दोस्त'
  <<2342, 2379, 2360, 2381, 2340>>

kwFuture ==  \* 'future'
  <<102, 117, 116, 117, 114, 101>>

kwBhavishya ==  \* 'भविष्य'
  <<2349, 2357, 2367, 2359, 2381, 2351>>

\* The phrases user messages are built from (raw text, before toLowerCase)
Phrases ==
  <<
    <<73, 32, 102, 101, 101, 108, 32, 97, 32, 108, 105, 116, 116, 108, 101, 32, 115, 116, 114, 101, 115, 115, 101, 100, 32, 97, 98, 111, 117, 116, 32, 101, 120, 97, 109, 115>>,  \* 'I feel a little stressed about exams'
    <<105, 32, 119, 97, 110, 116, 32, 116, 111, 32, 99, 111, 109, 109, 105, 116, 32, 115, 117, 105, 99, 105, 100, 101>>,  \* 'i want to commit suicide'
    <<73, 32, 71, 73, 86, 69, 32, 85, 80>>,  \* 'I GIVE UP'
    <<105, 32, 119, 97, 110, 116, 32, 116, 111, 32, 100, 105, 101>>,  \* 'i want to die'
    <<109, 121, 32, 102, 97, 109, 105, 108, 121, 32, 97, 110, 100, 32, 102, 114, 105, 101, 110, 100, 115>>,  \* 'my family and friends'
    <<105, 32, 102, 101, 101, 108, 32, 104, 111, 112, 101, 108, 101, 115, 115, 32, 97, 110, 100, 32, 97, 108, 111, 110, 101>>,  \* 'i feel hopeless and alone'
    <<105, 32, 97, 109, 32, 119, 111, 114, 114, 105, 101, 100, 32, 97, 110, 100, 32, 115, 97, 100>>,  \* 'i am worried and sad'
    <<2350, 2352, 2344, 2366, 32, 2330, 2366, 2361, 2340, 2366, 32, 2361, 2370, 2306>>,  \* 'मरना चाहता हूं'
    <<105, 32, 104, 97, 118, 101, 32, 97, 32, 112, 108, 97, 110, 32, 116, 111, 32, 101, 110, 100, 32, 105, 116, 32, 97, 108, 108, 32, 116, 111, 110, 105, 103, 104, 116>>,  \* 'i have a plan to end it all tonight'
    <<2310, 2340, 2381, 2350, 2361, 2340, 2381, 2351, 2366, 32, 2325, 2352, 2344, 2366>>,  \* 'आत्महत्या करना'
    <<108, 111, 110, 101, 108, 121, 32, 97, 110, 100, 32, 100, 114, 105, 110, 107, 105, 110, 103, 32, 116, 111, 100, 97, 121>>  \* 'lonely and drinking today'
  >>

-----------------------------------------------------------------------------
(* Strings *)

\* String.prototype.toLowerCase on one code unit: A-Z map to a-z, and the
\* Devanagari block has no case.
toLowerChar(c) == IF c >= 65 /\ c <= 90 THEN c + 32 ELSE c

toLowerCase(s) == [i \in 1..Len(s) |-> toLowerChar(s[i])]

\* String.prototype.includes: k occurs in t as a contiguous run of code units.
includes(t, k) ==
  \E i \in 1..(Len(t) - Len(k) + 1) :
    t[i] = k[1] /\ SubSeq(t, i, i + Len(k) - 1) = k

\* keywords.filter(keyword => lowerMessage.includes(keyword))
matches(lowerMessage, keywords) ==
  SelectSeq(keywords, LAMBDA keyword : includes(lowerMessage, keyword))

\* keywords.some(keyword => lowerMessage.includes(keyword))
some(lowerMessage, keywords) ==
  \E i \in 1..Len(keywords) : includes(lowerMessage, keywords[i])

\* The bound on the number of phrases in one message.
MaxPhrases == 2

\* A message is named by the indices of its phrases; its text is the phrases
\* joined by single spaces.
RECURSIVE MessageText(_)
MessageText(m) ==
  IF Len(m) = 0 THEN <<>>
  ELSE IF Len(m) = 1 THEN Phrases[m[1]]
  ELSE Phrases[m[1]] \o <<32>> \o MessageText(Tail(m))

RECURSIVE SeqsUpTo(_, _)
SeqsUpTo(S, n) ==
  IF n = 0 THEN {<<>>}
  ELSE LET shorter == SeqsUpTo(S, n - 1)
       IN  shorter \cup {Append(s, x) : s \in {t \in shorter : Len(t) = n - 1}, x \in S}

AllMessages == SeqsUpTo(1..Len(Phrases), MaxPhrases)

-----------------------------------------------------------------------------
(* crisisDetection.ts *)

\* The score assessCrisisLevel accumulates: 10 for each direct crisis keyword
\* found, 5 for each high-risk indicator found, 8 for a plan with hurt or end,
\* 3 for an immediacy word.
crisisScore(lowerText) ==
  LET crisisHits == SelectSeq(CRISIS_KEYWORDS,
                      LAMBDA keyword : includes(lowerText, toLowerCase(keyword)))
      riskHits == SelectSeq(HIGH_RISK_INDICATORS,
                      LAMBDA indicator : includes(lowerText, toLowerCase(indicator)))
      planBoost == IF includes(lowerText, kwPlan)
                      /\ (includes(lowerText, kwHurt) \/ includes(lowerText, kwEnd))
                   THEN 8 ELSE 0
      timeBoost == IF includes(lowerText, kwTonight) \/ includes(lowerText, kwToday)
                      \/ includes(lowerText, kwNow)
                   THEN 3 ELSE 0
  IN  10 * Len(crisisHits) + 5 * Len(riskHits) + planBoost + timeBoost

\* A variant of the threshold ladder in which the two highest rungs are
\* swapped.
crisisLevelOf_swapped(score) ==
  IF score >= 15 THEN "high"
  ELSE IF score >= 10 THEN "severe"
  ELSE IF score >= 5 THEN "moderate"
  ELSE IF score >= 2 THEN "low"
  ELSE "none"

\* A variant of the threshold ladder in which every rung is a strict
\* comparison.
crisisLevelOf_strict(score) ==
  IF score > 15 THEN "severe"
  ELSE IF score > 10 THEN "high"
  ELSE IF score > 5 THEN "moderate"
  ELSE IF score > 2 THEN "low"
  ELSE "none"

\* The threshold ladder of assessCrisisLevel.
crisisLevelOf(score) ==
  IF score >= 15 THEN "severe"
  ELSE IF score >= 10 THEN "high"
  ELSE IF score >= 5 THEN "moderate"
  ELSE IF score >= 2 THEN "low"
  ELSE "none"

\* assessCrisisLevel(text): the score-threshold aggregator.
assessCrisisLevel(t) ==
  LET lowerText == toLowerCase(t)
      score == crisisScore(lowerText)
      level == crisisLevelOf(score)
  IN  [ level |-> level,
        confidence |-> CASE level = "severe" -> 90
                         [] level = "high" -> 80
                         [] level = "moderate" -> 60
                         [] level = "low" -> 40
                         [] OTHER -> 0,
        triggeredKeywords |->
          SelectSeq(CRISIS_KEYWORDS,
            LAMBDA keyword : includes(lowerText, toLowerCase(keyword)))
          \o SelectSeq(HIGH_RISK_INDICATORS,
            LAMBDA indicator : includes(lowerText, toLowerCase(indicator))),
        recommendedAction |-> CASE level = "severe" -> "immediate_intervention"
                                [] level = "high" -> "crisis_resources"
                                [] level = "moderate" -> "supportive_resources"
                                [] level = "low" -> "monitoring"
                                [] OTHER -> "" ]

\* The assessment of every message, computed once.
CrisisAssessmentOf == [m \in AllMessages |-> assessCrisisLevel(MessageText(m))]

\* A variant of shouldShowCrisisResources that shows them for severe only.
shouldShowCrisisResources_severeOnly(assessment) == assessment.level = "severe"

\* shouldShowCrisisResources(assessment)
shouldShowCrisisResources(assessment) ==
  assessment.level = "severe" \/ assessment.level = "high"

\* The text holds one of the direct crisis keywords.
HasCrisisKeyword(m) ==
  \E k \in 1..Len(CRISIS_KEYWORDS) :
    includes(toLowerCase(MessageText(m)), toLowerCase(CRISIS_KEYWORDS[k]))

HasCrisisKeywordOf == [m \in AllMessages |-> HasCrisisKeyword(m)]

\* The text holds a phrase of the suicidal-ideation lexicon.
HasSuicidalIdeation(m) == some(toLowerCase(MessageText(m)), risk_suicidalIdeation)

HasSuicidalIdeationOf == [m \in AllMessages |-> HasSuicidalIdeation(m)]


-----------------------------------------------------------------------------
(* Objects with optional fields *)

\* obj.field is defined.
Has(obj, field) == field \in DOMAIN obj

\* obj.field > c and obj.field < c; false when the field is undefined.
FieldGT(obj, field, c) == Has(obj, field) /\ obj[field] > c

FieldLT(obj, field, c) == Has(obj, field) /\ obj[field] < c

\* obj.field || dflt for a numeric field: undefined and 0 are falsy.
NumOr(obj, field, dflt) ==
  IF Has(obj, field) /\ obj[field] # 0 THEN obj[field] ELSE dflt

\* obj.field || dflt for a string field: undefined and '' are falsy.
StrOr(obj, field, dflt) ==
  IF Has(obj, field) /\ obj[field] # "" THEN obj[field] ELSE dflt

\* let emotionalAnalysis: any = {}
EmptyAnalysis == [x \in {} |-> 0]

\* The primary emotions simulateAdvancedEmotionDetection is let to report here
\* (it picks the largest of six random shares).
FacialEmotions == {"joy", "sorrow"}

\* EmotionDetectionResult, as far as the session manager reads it: it has a
\* primaryEmotion and a confidence, and neither intensity, valence nor arousal.
EmotionDetectionResult(primaryEmotion) ==
  [faceDetected |-> TRUE, primaryEmotion |-> primaryEmotion, confidence |-> 40]

-----------------------------------------------------------------------------
(* SessionManager: the pure parts *)

\* A variant of assessCurrentRisk in which a protective factor lowers a
\* suicidal-ideation hit to level high.
assessCurrentRisk_protected(userMessage, emotionalAnalysis) ==
  LET lowerMessage == toLowerCase(userMessage)
      suicidal == some(lowerMessage, crisisKeywords)
      protected == includes(lowerMessage, kwFamily) \/ includes(lowerMessage, kwFriends)
      level == IF suicidal /\ ~protected THEN "severe"
               ELSE IF suicidal THEN "high"
               ELSE "none"
  IN  [ level |-> level,
        indicators |-> IF suicidal THEN <<"suicidal_ideation">> ELSE <<>>,
        protectiveFactors |-> IF protected THEN <<"social_support">> ELSE <<>>,
        interventions |-> <<>>,
        followUpRequired |-> level # "none",
        professionalReferral |-> level = "severe" ]

\* assessCurrentRisk(session, userMessage, emotionalAnalysis); the session is
\* not read.
assessCurrentRisk(userMessage, emotionalAnalysis) ==
  LET lowerMessage == toLowerCase(userMessage)
      indicators ==
        (IF some(lowerMessage, crisisKeywords) THEN <<"suicidal_ideation">> ELSE <<>>)
        \o (IF FieldGT(emotionalAnalysis, "intensity", 80)
               /\ FieldLT(emotionalAnalysis, "valence", -50)
            THEN <<"severe_emotional_distress">> ELSE <<>>)
      protectiveFactors ==
        IF includes(lowerMessage, kwFamily) \/ includes(lowerMessage, kwFriends)
        THEN <<"social_support">> ELSE <<>>
      level ==
        IF \E i \in 1..Len(indicators) : indicators[i] = "suicidal_ideation"
          THEN "severe"
        ELSE IF Len(indicators) > 1 THEN "high"
        ELSE IF Len(indicators) > 0 THEN "moderate"
        ELSE IF FieldGT(emotionalAnalysis, "intensity", 60) THEN "low"
        ELSE "none"
  IN  [ level |-> level,
        indicators |-> indicators,
        protectiveFactors |-> protectiveFactors,
        interventions |-> <<>>,
        followUpRequired |-> level # "none",
        professionalReferral |-> level = "severe" ]

\* The RiskAssessment as assessCurrentRisk returns it: the fields above and
\* timestamp: new Date(), the reading of the clock at the call.
assessCurrentRiskAt(userMessage, emotionalAnalysis, timestamp) ==
  LET assessment == assessCurrentRisk(userMessage, emotionalAnalysis)
  IN  [field \in DOMAIN assessment \cup {"timestamp"} |->
         IF field = "timestamp" THEN timestamp ELSE assessment[field]]

\* The cap of session.emotionalJourney.
JourneyCap == 50

\* array.slice(-n): the last n elements.
sliceLast(s, n) == IF Len(s) > n THEN SubSeq(s, Len(s) - n + 1, Len(s)) ELSE s

\* A variant of updateEmotionalJourney that drops the newest entries at the
\* cap: it keeps the first JourneyCap of them.
updateEmotionalJourney_keepsOldest(emotionalJourney, emotionalAnalysis, source, timestamp) ==
  LET dataPoint ==
        [ timestamp |-> timestamp,
          primaryEmotion |-> StrOr(emotionalAnalysis, "primaryEmotion", "neutral"),
          intensity |-> NumOr(emotionalAnalysis, "intensity", 50),
          valence |-> NumOr(emotionalAnalysis, "valence", 0),
          arousal |-> NumOr(emotionalAnalysis, "arousal", 50),
          confidence |-> NumOr(emotionalAnalysis, "confidence", 70),
          source |-> source ]
      pushed == Append(emotionalJourney, dataPoint)
  IN  IF Len(pushed) > JourneyCap THEN SubSeq(pushed, 1, JourneyCap) ELSE pushed

\* updateEmotionalJourney(session, emotionalAnalysis, source), on the journey.
updateEmotionalJourney(emotionalJourney, emotionalAnalysis, source, timestamp) ==
  LET dataPoint ==
        [ timestamp |-> timestamp,
          primaryEmotion |-> StrOr(emotionalAnalysis, "primaryEmotion", "neutral"),
          intensity |-> NumOr(emotionalAnalysis, "intensity", 50),
          valence |-> NumOr(emotionalAnalysis, "valence", 0),
          arousal |-> NumOr(emotionalAnalysis, "arousal", 50),
          confidence |-> NumOr(emotionalAnalysis, "confidence", 70),
          source |-> source ]
      pushed == Append(emotionalJourney, dataPoint)
  IN  IF Len(pushed) > JourneyCap THEN sliceLast(pushed, JourneyCap) ELSE pushed

\* The cap of session.interactions.
InteractionCap == 100

\* recordInteraction(session, interaction), on the interactions.
recordInteraction(interactions, interaction) ==
  LET pushed == Append(interactions, interaction)
  IN  IF Len(pushed) > InteractionCap THEN sliceLast(pushed, InteractionCap) ELSE pushed

\* Math.min(1, x), in hundredths.
min1(x) == IF x < 100 THEN x ELSE 100

\* initializeProgressMetrics()
initializeProgressMetrics ==
  [ emotionalRegulation |-> 50,
    selfAwareness |-> 50,
    copingSkillsUsage |-> 50,
    therapeuticAlliance |-> 50,
    riskReduction |-> 50,
    engagementLevel |-> 50,
    sessionSatisfaction |-> 50 ]

\* A variant of updateProgressMetrics without Math.min(1, ...).
updateProgressMetrics_unclamped(progressMetrics, aiResponse, emotionalAnalysis) ==
  [ progressMetrics EXCEPT
      !.engagementLevel = @ + 10,
      !.emotionalRegulation =
        IF aiResponse.interventionType = "validation"
           /\ FieldGT(emotionalAnalysis, "valence", -30)
        THEN @ + 5 ELSE @,
      !.therapeuticAlliance = @ + 2 ]

\* updateProgressMetrics(session, aiResponse, emotionalAnalysis), on the metrics.
updateProgressMetrics(progressMetrics, aiResponse, emotionalAnalysis) ==
  [ progressMetrics EXCEPT
      !.engagementLevel = min1(@ + 10),
      !.emotionalRegulation =
        IF aiResponse.interventionType = "validation"
           /\ FieldGT(emotionalAnalysis, "valence", -30)
        THEN @ + 5 ELSE @,
      !.therapeuticAlliance = min1(@ + 2) ]

\* determineAIAdaptations(session, emotionalAnalysis): the adaptation types it
\* pushes onto session.aiAdaptations and returns.
determineAIAdaptations(emotionalAnalysis) ==
  (IF Has(emotionalAnalysis, "primaryEmotion")
      /\ emotionalAnalysis.primaryEmotion = "sad"
      /\ FieldGT(emotionalAnalysis, "intensity", 60)
   THEN <<"tone">> ELSE <<>>)
  \o (IF FieldGT(emotionalAnalysis, "intensity", 70) THEN <<"complexity">> ELSE <<>>)

-----------------------------------------------------------------------------
(* AIOrchestrator: the pure parts *)

\* The categories of emotionalKeywords, in the object's key order.
emotionOrder == <<"anxiety", "depression", "stress", "anger", "joy">>

emotionalKeywords(emotion) ==
  CASE emotion = "anxiety" -> emo_anxiety
    [] emotion = "depression" -> emo_depression
    [] emotion = "stress" -> emo_stress
    [] emotion = "anger" -> emo_anger
    [] emotion = "joy" -> emo_joy

\* analyzeEmotionalContent(message): detectedEmotions holds a category iff a
\* keyword of it matched; primaryEmotion is its first key.
analyzeEmotionalContent(message) ==
  LET lowerMessage == toLowerCase(message)
      hits(emotion) == Len(matches(lowerMessage, emotionalKeywords(emotion)))
      detected == SelectSeq(emotionOrder, LAMBDA emotion : hits(emotion) > 0)
      intensity(emotion) == min1(hits(emotion) * 30)
      intensities == {intensity(detected[i]) : i \in 1..Len(detected)} \cup {10}
  IN  [ primaryEmotion |-> IF Len(detected) > 0 THEN detected[1] ELSE "neutral",
        emotionIntensity |-> CHOOSE x \in intensities : \A y \in intensities : y <= x,
        detectedEmotions |-> detected,
        hitCounts |-> [i \in 1..Len(emotionOrder) |-> hits(emotionOrder[i])] ]

\* The array-valued entries of culturalIndicators, in the object's key order.
culturalOrder ==
  <<"familyReferences", "socialPressure", "academicPressure", "religiousReferences">>

culturalIndicators(theme) ==
  CASE theme = "familyReferences" -> cult_familyReferences
    [] theme = "socialPressure" -> cult_socialPressure
    [] theme = "academicPressure" -> cult_academicPressure
    [] theme = "religiousReferences" -> cult_religiousReferences

\* /[ऀ-ॿ]/.test(message) and /[a-zA-Z]/.test(message)
hasHindi(message) == \E i \in 1..Len(message) : message[i] >= 2304 /\ message[i] <= 2431

hasEnglish(message) ==
  \E i \in 1..Len(message) :
    \/ message[i] >= 97 /\ message[i] <= 122
    \/ message[i] >= 65 /\ message[i] <= 90

\* detectLanguagePreference(message)
detectLanguagePreference(message) ==
  IF hasHindi(message) /\ hasEnglish(message) THEN "mixed"
  ELSE IF hasHindi(message) THEN "hindi"
  ELSE "english"

\* analyzeCulturalContext(message, userContext); languageMixing is 0.8 for a
\* message in both scripts and joins the themes when above 0.3.
analyzeCulturalContext(message) ==
  LET lowerMessage == toLowerCase(message)
  IN  [ languagePreference |-> detectLanguagePreference(message),
        culturalThemes |->
          SelectSeq(culturalOrder,
            LAMBDA theme : Len(matches(lowerMessage, culturalIndicators(theme))) > 0)
          \o (IF hasHindi(message) /\ hasEnglish(message)
              THEN <<"languageMixing">> ELSE <<>>) ]

\* The categories of riskIndicators and of protectiveFactors, in key order.
riskOrder == <<"suicidalIdeation", "selfHarm", "hopelessness", "isolation", "substanceUse">>

riskIndicators(risk) ==
  CASE risk = "suicidalIdeation" -> risk_suicidalIdeation
    [] risk = "selfHarm" -> risk_selfHarm
    [] risk = "hopelessness" -> risk_hopelessness
    [] risk = "isolation" -> risk_isolation
    [] risk = "substanceUse" -> risk_substanceUse

protectiveOrder ==
  <<"socialSupport", "copingStrategies", "futureOrientation", "helpSeeking">>

protectiveFactorKeywords(factor) ==
  CASE factor = "socialSupport" -> protect_socialSupport
    [] factor = "copingStrategies" -> protect_copingStrategies
    [] factor = "futureOrientation" -> protect_futureOrientation
    [] factor = "helpSeeking" -> protect_helpSeeking

\* getUserContext(userId).mentalHealthHistory.riskFactors: the default context
\* is the only one the orchestrator ever stores, and its list is empty.
defaultRiskFactors == <<>>

\* assessRiskFactors(message, userContext, conversationContext)
assessRiskFactors(message, riskFactors) ==
  LET lowerMessage == toLowerCase(message)
      indicators ==
        SelectSeq(riskOrder,
          LAMBDA risk : Len(matches(lowerMessage, riskIndicators(risk))) > 0)
      protective ==
        SelectSeq(protectiveOrder,
          LAMBDA factor : Len(matches(lowerMessage, protectiveFactorKeywords(factor))) > 0)
      suicidal == \E i \in 1..Len(indicators) : indicators[i] = "suicidalIdeation"
  IN  [ level |-> IF suicidal THEN "severe"
                  ELSE IF Len(indicators) >= 2 THEN "high"
                  ELSE IF Len(indicators) = 1 THEN "moderate"
                  ELSE IF Len(riskFactors) > 0 THEN "low"
                  ELSE "none",
        indicators |-> indicators,
        protectiveFactors |-> protective,
        immediateIntervention |-> suicidal ]

\* array.includes(x)
contains(array, x) == \E i \in 1..Len(array) : array[i] = x

\* obj.field for a string field, 'undefined' when the field is absent.
StrField(obj, field) == IF Has(obj, field) THEN obj[field] ELSE "undefined"

\* identifyTherapeuticNeeds(message, analysis)
identifyTherapeuticNeeds(analysis) ==
  LET primaryEmotion == StrField(analysis.emotionalAnalysis, "primaryEmotion")
      themes == analysis.culturalAnalysis.culturalThemes
  IN  (IF primaryEmotion = "anxiety"
       THEN <<"anxiety_management", "grounding_techniques">> ELSE <<>>)
      \o (IF primaryEmotion = "depression"
          THEN <<"mood_enhancement", "behavioral_activation">> ELSE <<>>)
      \o (IF primaryEmotion = "stress"
          THEN <<"stress_management", "relaxation_techniques">> ELSE <<>>)
      \o (IF StrField(analysis.riskAnalysis, "level") # "none"
          THEN <<"crisis_intervention", "safety_planning">> ELSE <<>>)
      \o (IF contains(themes, "familyReferences")
          THEN <<"family_therapy_techniques">> ELSE <<>>)
      \o (IF contains(themes, "academicPressure")
          THEN <<"academic_stress_management">> ELSE <<>>)

\* The steps of analyzeUserMessage that can throw into its catch block, and
\* "none" for a run in which none does.
AnalysisFaults == {"none", "emotional", "cultural", "risk", "needs"}

\* analyzeUserMessage(message, userContext, conversationContext): the analysis
\* object starts with empty parts, each step fills its part, and the catch block
\* returns the object as far as it got.
analyzeUserMessage(message, fault) ==
  LET emotional == IF fault = "emotional" THEN EmptyAnalysis
                   ELSE analyzeEmotionalContent(message)
      cultural == IF fault \in {"emotional", "cultural"} THEN EmptyAnalysis
                  ELSE analyzeCulturalContext(message)
      risk == IF fault \in {"emotional", "cultural", "risk"} THEN EmptyAnalysis
              ELSE assessRiskFactors(message, defaultRiskFactors)
      partial == [ emotionalAnalysis |-> emotional,
                   culturalAnalysis |-> cultural,
                   riskAnalysis |-> risk ]
  IN  [ emotionalAnalysis |-> emotional,
        culturalAnalysis |-> cultural,
        riskAnalysis |-> risk,
        therapeuticNeeds |-> IF fault = "none" THEN identifyTherapeuticNeeds(partial)
                             ELSE <<>> ]

\* determineInterventionStrategy(messageAnalysis, userContext, riskAssessment):
\* the primary intervention. The riskAssessment argument is not read.
determineInterventionStrategy(messageAnalysis) ==
  LET level == StrField(messageAnalysis.riskAnalysis, "level")
      primaryNeeds == messageAnalysis.therapeuticNeeds
  IN  IF level = "severe" THEN "crisis_intervention"
      ELSE IF level = "high" THEN "risk_management"
      ELSE IF contains(primaryNeeds, "anxiety_management") THEN "mindfulness"
      ELSE IF contains(primaryNeeds, "mood_enhancement") THEN "behavioral_activation"
      ELSE IF contains(primaryNeeds, "stress_management") THEN "cognitive_restructuring"
      ELSE "validation"

\* getImmediateActions(riskAnalysis)
getImmediateActions(riskAnalysis) ==
  LET level == StrField(riskAnalysis, "level")
  IN  IF level = "severe"
        THEN <<"contact_emergency_services", "ensure_safety", "contact_trusted_person">>
      ELSE IF level = "high"
        THEN <<"schedule_professional_help", "activate_support_network">>
      ELSE IF level = "moderate"
        THEN <<"practice_coping_strategies", "reach_out_to_support">>
      ELSE <<>>

\* getFollowUpTimeframe(riskLevel)
getFollowUpTimeframe(riskLevel) ==
  CASE riskLevel = "severe" -> "immediate"
    [] riskLevel = "high" -> "within 24 hours"
    [] riskLevel = "moderate" -> "within 2-3 days"
    [] riskLevel = "low" -> "within a week"
    [] OTHER -> "as needed"

\* getFallbackMessage(analysis): a fixed text chosen by the primary emotion, the
\* default text for any other emotion and for an analysis without one.
getFallbackMessage(analysis) ==
  LET emotion == StrOr(analysis.emotionalAnalysis, "primaryEmotion", "undefined")
  IN  IF emotion = "anxiety" THEN "I understand you're feeling anxious."
      ELSE IF emotion = "depression"
           THEN "I hear that you're going through a difficult time."
      ELSE IF emotion = "stress"
           THEN "It sounds like you're under a lot of pressure."
      ELSE "Thank you for sharing with me."

\* generateFallbackResponse(message, userId), its message an empty text.
generateFallbackResponse_emptyMessage ==
  [ message |-> "",
    interventionType |-> "validation",
    riskAssessment |-> [level |-> "none", indicators |-> <<>>, immediateActions |-> <<>>],
    followUp |-> [recommended |-> FALSE, timeframe |-> "as needed", focus |-> <<>>] ]

\* generateFallbackResponse(message, userId)
generateFallbackResponse ==
  [ message |-> "fallback",
    interventionType |-> "validation",
    riskAssessment |-> [level |-> "none", indicators |-> <<>>, immediateActions |-> <<>>],
    followUp |-> [recommended |-> FALSE, timeframe |-> "as needed", focus |-> <<>>] ]

\* What geminiAI.generateResponse does with the prompt: the model's reply, or,
\* with a demo key or after any error of the API, getDemoResponse(prompt). It
\* never throws.
GeneratorOutcomes == {"generated", "demo"}

\* The texts generateResponse can hand back: the two above, and the empty text
\* when the API answers with no text.
GeneratorReplies == GeneratorOutcomes \cup {""}

\* generateCulturallyAdaptedResponse(...): building the prompt reads
\* culturalThemes.join before the try block, so an analysis without cultural
\* themes throws to the caller; otherwise the response is built from the analysis.
\* The indicators are copied from the risk analysis: a risk analysis without
\* indicators gives a riskAssessment without them.
generateCulturallyAdaptedResponse(messageAnalysis, interventionStrategy, generator) ==
  IF ~Has(messageAnalysis.culturalAnalysis, "culturalThemes")
  THEN [threw |-> TRUE]
  ELSE [ threw |-> FALSE,
         message |-> IF generator # "" THEN generator
                     ELSE getFallbackMessage(messageAnalysis),
         interventionType |-> interventionStrategy,
         riskAssessment |->
           IF Has(messageAnalysis.riskAnalysis, "indicators")
           THEN [ level |-> StrField(messageAnalysis.riskAnalysis, "level"),
                  indicators |-> messageAnalysis.riskAnalysis.indicators,
                  immediateActions |-> getImmediateActions(messageAnalysis.riskAnalysis) ]
           ELSE [ level |-> StrField(messageAnalysis.riskAnalysis, "level"),
                  immediateActions |-> getImmediateActions(messageAnalysis.riskAnalysis) ],
         followUp |->
           [ recommended |-> StrField(messageAnalysis.riskAnalysis, "level") # "none",
             timeframe |->
               getFollowUpTimeframe(StrField(messageAnalysis.riskAnalysis, "level")),
             focus |-> messageAnalysis.therapeuticNeeds ] ]

\* generateTherapeuticResponse(userMessage, userId, context): whatever is thrown
\* inside is caught and answered with generateFallbackResponse.
generateTherapeuticResponse(userMessage, fault, generator) ==
  LET messageAnalysis == analyzeUserMessage(userMessage, fault)
      interventionStrategy == determineInterventionStrategy(messageAnalysis)
      response == generateCulturallyAdaptedResponse(messageAnalysis,
                                                    interventionStrategy, generator)
  IN  IF response.threw THEN generateFallbackResponse
      ELSE [ message |-> response.message,
             interventionType |-> response.interventionType,
             riskAssessment |-> response.riskAssessment,
             followUp |-> response.followUp ]

-----------------------------------------------------------------------------
(* The state after construction (geminiAI.ts 435-438): every map is empty. *)

NoResult == [done |-> FALSE]

EmptyMap == [x \in {} |-> 0]

SessionInit ==
  /\ activeSessions = {}
  /\ sessions = EmptyMap
  /\ userPlans = EmptyMap
  /\ plans = EmptyMap
  /\ sessionHistory = EmptyMap
  /\ realTimeAnalysis = {}
  /\ calls = EmptyMap
  /\ returned = [op |-> "none"]
  /\ crisisEvents = <<>>
  /\ nextId = 1
  /\ now = 0

\* The AICompanion component once mounted: useState of messages, isTyping and
\* showCrisisSupport.  The list of messages is empty, and initializeChat is
\* suspended at generateEmpathicResponse (initializing).  sending holds the
\* handleSendMessage calls suspended at generateAIResponse, sends counts the
\* messages sent.
ChatMounted ==
  [ messages |-> <<>>,
    initializing |-> TRUE,
    isTyping |-> FALSE,
    showCrisisSupport |-> FALSE,
    sending |-> <<>>,
    sends |-> 0 ]

UnitIdle ==
  /\ text = <<>>
  /\ result = NoResult
  /\ journey = <<>>
  /\ metrics = EmptyMap
  /\ chat = ChatMounted

-----------------------------------------------------------------------------
(* SessionManager: the operations.  An async method runs until its next     *)
(* await, is suspended there as an entry of calls, and is resumed by a      *)
(* later step; other calls may run in between.  Consecutive awaits with no  *)
(* change of state between them are one suspension.                         *)

\* The bound on the number of calls made in a run.
MaxCalls == 3

\* The users, the session types, the session ids that calls name (the ids of
\* the sessions started, in the order of their creation) and the slots of the
\* calls suspended at the same time.
Users == {"u1", "u2"}

SessionTypes == {"chat", "video"}

SessionIds == {1, 2}

CallSlots == {1, 2}

\* The messages sent in turns: an everyday message, 'I GIVE UP', and a message
\* with 'suicide' and 'family'.
TurnMessages == {<<1>>, <<3>>, <<2, 5>>}

\* A turn is a text turn, or a video turn that carries image data.
TurnModes == {[interactionType |-> "text", hasImage |-> FALSE],
              [interactionType |-> "video", hasImage |-> TRUE]}

\* What analyzeImage can give a turn: nothing (it was not called), or a result
\* with one of the primary emotions.
AnalysisKeys == {"none"} \cup FacialEmotions

AnalysisOf(key) == IF key = "none" THEN EmptyAnalysis ELSE EmotionDetectionResult(key)

KeyOf(emotionalAnalysis) == StrOr(emotionalAnalysis, "primaryEmotion", "none")

\* assessCurrentRisk and generateTherapeuticResponse on the turn messages,
\* computed once.
RiskAssessmentOf ==
  [m \in TurnMessages |->
    [k \in AnalysisKeys |-> assessCurrentRisk(MessageText(m), AnalysisOf(k))]]

\* The RiskAssessment object of a turn: the assessment with timestamp:
\* new Date(), the reading of the clock when assessCurrentRisk was called.
RiskAssessmentAt(userMessage, key, timestamp) ==
  LET assessment == RiskAssessmentOf[userMessage][key]
  IN  [field \in DOMAIN assessment \cup {"timestamp"} |->
         IF field = "timestamp" THEN timestamp ELSE assessment[field]]

TherapeuticResponseOf ==
  [m \in TurnMessages |->
    [f \in AnalysisFaults |->
      [g \in GeneratorOutcomes |-> generateTherapeuticResponse(MessageText(m), f, g)]]]

LoweredText == [m \in TurnMessages |-> toLowerCase(MessageText(m))]

CrisisLevels == {"moderate", "high", "severe"}

\* What analyzeImage gives a video turn: a result with the primary emotion
\* sorrow, or the error it rethrows.
ImageOutcomes == {"sorrow", "throws"}

\* A call may start while the bounds allow another one.
CanCall == nextId <= MaxCalls /\ DOMAIN calls # CallSlots

\* The slot of a new suspended call.
FreeSlot == CHOOSE c \in CallSlots : c \notin DOMAIN calls

Suspend(call) == calls' = [c \in DOMAIN calls \cup {FreeSlot} |->
                            IF c = FreeSlot THEN call ELSE calls[c]]

Resume(c, call) == calls' = [calls EXCEPT ![c] = call]

\* The calls that stay suspended keep their order and fill the first slots.
Finish(c) == calls' = [d \in 1..(Cardinality(DOMAIN calls) - 1) |->
                         IF d < c THEN calls[d] ELSE calls[d + 1]]

\* map.set(key, value) and map.delete(key)
mapSet(map, key, value) ==
  [k \in DOMAIN map \cup {key} |-> IF k = key THEN value ELSE map[k]]

mapDelete(map, key) == [k \in DOMAIN map \ {key} |-> map[k]]

\* A variant of SessionNotFound that throws an error without a kind of its own.
SessionNotFound_generic(op, sessionId) ==
  [op |-> op, kind |-> "error", error |-> "Error", sessionId |-> sessionId]

\* throw new Error('Session not found')
SessionNotFound(op, sessionId) ==
  [op |-> op, kind |-> "error", error |-> "Session not found", sessionId |-> sessionId]

\* The default plan of getTherapeuticPlan.
defaultPlan(userId) ==
  [ userId |-> userId,
    adaptiveStrategies |-> <<"language_mixing", "cultural_references">> ]

\* startSession, to the await of getTherapeuticPlan: the plan of the user is
\* created when the user has none.
StartSessionCall(userId, sessionType) ==
  /\ CanCall
  /\ Cardinality(DOMAIN sessions)
       + Cardinality({c \in DOMAIN calls :
                        calls[c].op = "startSession" /\ calls[c].pc = "plan"})
       < Cardinality(SessionIds)
  \* Users are interchangeable: the first session started is one of u1.
  /\ userId = "u1" \/ sessions # EmptyMap \/ calls # EmptyMap
  /\ nextId' = nextId + 1
  /\ IF userId \in DOMAIN userPlans
     THEN UNCHANGED <<userPlans, plans>>
     ELSE LET planId == Cardinality(DOMAIN plans) + 1
          IN  /\ plans' = mapSet(plans, planId, defaultPlan(userId))
              /\ userPlans' = mapSet(userPlans, userId, planId)
  /\ Suspend([op |-> "startSession", pc |-> "plan", userId |-> userId,
              sessionType |-> sessionType])
  /\ UNCHANGED <<activeSessions, sessions, sessionHistory, realTimeAnalysis,
                 returned, crisisEvents, now, unitVars>>

\* startSession, resumed after getTherapeuticPlan: the session object is built
\* with the start time read from the clock and registered.  A chat session
\* returns its id at once; for a video or voice session startRealTimeMonitoring
\* sets the monitoring entry and is awaited.
StartSessionCreate(c) ==
  /\ c \in DOMAIN calls
  /\ calls[c].op = "startSession"
  /\ calls[c].pc = "plan"
  /\ LET sessionId == Cardinality(DOMAIN sessions) + 1
         session == [ sessionId |-> sessionId,
                      userId |-> calls[c].userId,
                      startTime |-> now,
                      sessionType |-> calls[c].sessionType,
                      ended |-> FALSE,
                      interactions |-> <<>>,
                      emotionalJourney |-> <<>>,
                      progressMetrics |-> initializeProgressMetrics,
                      aiAdaptations |-> <<>>,
                      riskAssessments |-> <<>> ]
     IN  /\ sessions' = mapSet(sessions, sessionId, session)
         /\ activeSessions' = activeSessions \cup {sessionId}
         /\ IF calls[c].sessionType \in {"video", "voice"}
            THEN /\ realTimeAnalysis' = realTimeAnalysis \cup {sessionId}
                 /\ Resume(c, [ op |-> "startSession", pc |-> "startRealTimeMonitoring",
                                userId |-> calls[c].userId,
                                sessionType |-> calls[c].sessionType,
                                sessionId |-> sessionId ])
                 /\ UNCHANGED returned
            ELSE /\ returned' = [ op |-> "startSession", kind |-> "ok",
                                  sessionId |-> sessionId ]
                 /\ Finish(c)
                 /\ UNCHANGED realTimeAnalysis
  /\ UNCHANGED <<userPlans, plans, sessionHistory, crisisEvents, nextId, now, unitVars>>

\* startSession of a video or voice session, resumed after
\* startRealTimeMonitoring: the id is returned, whatever happened to the
\* session meanwhile.
StartAfterMonitoring(c) ==
  /\ c \in DOMAIN calls
  /\ calls[c].op = "startSession"
  /\ calls[c].pc = "startRealTimeMonitoring"
  /\ returned' = [ op |-> "startSession", kind |-> "ok",
                   sessionId |-> calls[c].sessionId ]
  /\ Finish(c)
  /\ UNCHANGED <<activeSessions, sessions, userPlans, plans, sessionHistory,
                 realTimeAnalysis, crisisEvents, nextId, now, unitVars>>

\* processInteraction, to its first await.  An unknown id throws at once.  The
\* user message is recorded; a video turn with image data awaits analyzeImage,
\* any other turn has the empty analysis and awaits assessCurrentRisk.
ProcessInteractionCall(sessionId, userMessage, interactionType, hasImage) ==
  /\ CanCall
  /\ nextId' = nextId + 1
  /\ IF sessionId \notin activeSessions
     THEN /\ returned' = SessionNotFound("processInteraction", sessionId)
          /\ UNCHANGED <<sessions, calls>>
     ELSE /\ sessions' = [sessions EXCEPT ![sessionId].interactions =
                recordInteraction(@, [type |-> "user_message", content |-> userMessage])]
          /\ IF interactionType = "video" /\ hasImage
             THEN Suspend([op |-> "processInteraction", pc |-> "analyzeImage",
                           sessionId |-> sessionId, userMessage |-> userMessage,
                           interactionType |-> interactionType])
             ELSE Suspend([op |-> "processInteraction", pc |-> "assessCurrentRisk",
                           sessionId |-> sessionId, userMessage |-> userMessage,
                           interactionType |-> interactionType,
                           emotionalAnalysis |-> EmptyAnalysis,
                           riskAssessment |->
                             RiskAssessmentAt(userMessage, "none", now)])
          /\ UNCHANGED returned
  /\ UNCHANGED <<activeSessions, userPlans, plans, sessionHistory, realTimeAnalysis,
                 crisisEvents, now, unitVars>>

\* processInteraction, resumed after analyzeImage.  analyzeImage rethrows what
\* it catches, and the catch block of processInteraction rethrows it again.
\* Otherwise the result joins the journey and assessCurrentRisk is awaited.
ProcessAfterAnalyzeImage(c, outcome) ==
  /\ c \in DOMAIN calls
  /\ calls[c].op = "processInteraction"
  /\ calls[c].pc = "analyzeImage"
  /\ IF outcome = "throws"
     THEN /\ returned' = [op |-> "processInteraction", kind |-> "error",
                          error |-> "Image analysis error",
                          sessionId |-> calls[c].sessionId]
          /\ Finish(c)
          /\ UNCHANGED sessions
     ELSE LET emotionalAnalysis == EmotionDetectionResult(outcome)
              sessionId == calls[c].sessionId
          IN  /\ sessions' = [sessions EXCEPT ![sessionId].emotionalJourney =
                    updateEmotionalJourney(@, emotionalAnalysis, "facial", now)]
              /\ Resume(c, [op |-> "processInteraction", pc |-> "assessCurrentRisk",
                            sessionId |-> sessionId,
                            userMessage |-> calls[c].userMessage,
                            interactionType |-> calls[c].interactionType,
                            emotionalAnalysis |-> emotionalAnalysis,
                            riskAssessment |->
                              RiskAssessmentAt(calls[c].userMessage, outcome, now)])
              /\ UNCHANGED returned
  /\ UNCHANGED <<activeSessions, userPlans, plans, sessionHistory, realTimeAnalysis,
                 crisisEvents, nextId, now, unitVars>>

\* A variant of the step after assessCurrentRisk in which the assessment is
\* not pushed before the orchestrator is awaited.
ProcessAfterRisk_notRecorded(c) ==
  /\ c \in DOMAIN calls
  /\ calls[c].op = "processInteraction"
  /\ calls[c].pc = "assessCurrentRisk"
  /\ sessions' = [sessions EXCEPT
        ![calls[c].sessionId].aiAdaptations =
           @ \o determineAIAdaptations(calls[c].emotionalAnalysis)]
  /\ Resume(c, [ op |-> "processInteraction", pc |-> "generateTherapeuticResponse",
                 sessionId |-> calls[c].sessionId,
                 userMessage |-> calls[c].userMessage,
                 interactionType |-> calls[c].interactionType,
                 emotionalAnalysis |-> calls[c].emotionalAnalysis,
                 riskAssessment |-> calls[c].riskAssessment,
                 index |-> 0 ])
  /\ UNCHANGED <<activeSessions, userPlans, plans, sessionHistory, realTimeAnalysis,
                 returned, crisisEvents, nextId, now, unitVars>>

\* processInteraction, resumed after assessCurrentRisk: the assessment is
\* pushed, determineAIAdaptations pushes its adaptations, and the orchestrator
\* is awaited.  The call keeps its reference to the object it pushed: index is
\* the place of that object in session.riskAssessments.
ProcessAfterRisk(c) ==
  /\ c \in DOMAIN calls
  /\ calls[c].op = "processInteraction"
  /\ calls[c].pc = "assessCurrentRisk"
  /\ sessions' = [sessions EXCEPT
        ![calls[c].sessionId].riskAssessments = Append(@, calls[c].riskAssessment),
        ![calls[c].sessionId].aiAdaptations =
           @ \o determineAIAdaptations(calls[c].emotionalAnalysis)]
  /\ Resume(c, [ op |-> "processInteraction", pc |-> "generateTherapeuticResponse",
                 sessionId |-> calls[c].sessionId,
                 userMessage |-> calls[c].userMessage,
                 interactionType |-> calls[c].interactionType,
                 emotionalAnalysis |-> calls[c].emotionalAnalysis,
                 riskAssessment |-> calls[c].riskAssessment,
                 index |-> Len(sessions[calls[c].sessionId].riskAssessments) + 1 ])
  /\ UNCHANGED <<activeSessions, userPlans, plans, sessionHistory, realTimeAnalysis,
                 returned, crisisEvents, nextId, now, unitVars>>

\* generateSessionInsights(session).riskLevel
insightRiskLevel(session) ==
  IF Len(session.riskAssessments) > 0
  THEN session.riskAssessments[Len(session.riskAssessments)].level
  ELSE "none"

\* processInteraction, resumed after the orchestrator: the reply is recorded,
\* the metrics are nudged and the turn returns.
ProcessAfterGenerate(c, fault, generator) ==
  /\ c \in DOMAIN calls
  /\ calls[c].op = "processInteraction"
  /\ calls[c].pc = "generateTherapeuticResponse"
  \* The demo reply of the generator is taken with a fault-free analysis.
  /\ fault # "none" => generator = "generated"
  /\ LET sessionId == calls[c].sessionId
         aiResponse == TherapeuticResponseOf[calls[c].userMessage][fault][generator]
         after == [sessions[sessionId] EXCEPT
                     !.interactions = recordInteraction(@,
                        [type |-> "ai_response", content |-> aiResponse.message]),
                     !.progressMetrics = updateProgressMetrics(@, aiResponse,
                                                               calls[c].emotionalAnalysis)]
     IN  /\ sessions' = [sessions EXCEPT ![sessionId] = after]
         /\ returned' = [ op |-> "processInteraction", kind |-> "ok",
                          sessionId |-> sessionId,
                          userMessage |-> calls[c].userMessage,
                          emotionalAnalysis |-> calls[c].emotionalAnalysis,
                          riskAssessment |-> calls[c].riskAssessment,
                          analysisFaulted |-> fault # "none",
                          aiResponse |-> aiResponse,
                          sessionInsights |-> [riskLevel |-> insightRiskLevel(after)] ]
  /\ Finish(c)
  /\ UNCHANGED <<activeSessions, userPlans, plans, sessionHistory, realTimeAnalysis,
                 crisisEvents, nextId, now, unitVars>>

\* generateSessionSummary(session), as far as it reads the session.
generateSessionSummary(session) ==
  [ sessionId |-> session.sessionId,
    interactionCount |-> Len(session.interactions),
    riskLevel |-> insightRiskLevel(session) ]

\* endSession, to its first await.  An unknown id throws at once.  Monitoring
\* stops, the end time is set and the reports are awaited.
EndSessionCall(sessionId) ==
  /\ CanCall
  /\ nextId' = nextId + 1
  /\ IF sessionId \notin activeSessions
     THEN /\ returned' = SessionNotFound("endSession", sessionId)
          /\ UNCHANGED <<sessions, calls, realTimeAnalysis>>
     ELSE /\ realTimeAnalysis' = realTimeAnalysis \ {sessionId}
          /\ sessions' = [sessions EXCEPT ![sessionId].ended = TRUE]
          /\ Suspend([op |-> "endSession", pc |-> "reports", sessionId |-> sessionId,
                      sessionSummary |-> generateSessionSummary(sessions[sessionId])])
          /\ UNCHANGED returned
  /\ UNCHANGED <<activeSessions, userPlans, plans, sessionHistory, crisisEvents,
                 now, unitVars>>

\* endSession, resumed after the reports: updateTherapeuticPlan starts and
\* awaits getTherapeuticPlan, which creates the plan of the user when the user
\* has none.
EndAfterReports(c) ==
  /\ c \in DOMAIN calls
  /\ calls[c].op = "endSession"
  /\ calls[c].pc = "reports"
  /\ LET userId == sessions[calls[c].sessionId].userId
         planId == IF userId \in DOMAIN userPlans THEN userPlans[userId]
                   ELSE Cardinality(DOMAIN plans) + 1
     IN  /\ IF userId \in DOMAIN userPlans
            THEN UNCHANGED <<userPlans, plans>>
            ELSE /\ plans' = mapSet(plans, planId, defaultPlan(userId))
                 /\ userPlans' = mapSet(userPlans, userId, planId)
         /\ Resume(c, [op |-> "endSession", pc |-> "getTherapeuticPlan",
                       sessionId |-> calls[c].sessionId,
                       sessionSummary |-> calls[c].sessionSummary,
                       planId |-> planId])
  /\ UNCHANGED <<activeSessions, sessions, sessionHistory, realTimeAnalysis,
                 returned, crisisEvents, nextId, now, unitVars>>

\* session.progressMetrics.therapeuticAlliance > 0.7.  The alliance is 0.5 plus
\* k times 0.02 in doubles, which at k = 10 is 0.7000000000000002: the test
\* holds from 70 hundredths on.
allianceAbove07(therapeuticAlliance) == therapeuticAlliance >= 70

\* updateTherapeuticPlan, resumed after getTherapeuticPlan: the plan object is
\* updated and set again as the plan of the user.
EndAfterGetPlan(c) ==
  /\ c \in DOMAIN calls
  /\ calls[c].op = "endSession"
  /\ calls[c].pc = "getTherapeuticPlan"
  /\ LET session == sessions[calls[c].sessionId]
         planId == calls[c].planId
     IN  /\ plans' = [plans EXCEPT ![planId].adaptiveStrategies =
                IF allianceAbove07(session.progressMetrics.therapeuticAlliance)
                THEN Append(@, "maintain_current_approach") ELSE @]
         /\ userPlans' = mapSet(userPlans, session.userId, planId)
  /\ Resume(c, [calls[c] EXCEPT !.pc = "updateTherapeuticPlan"])
  /\ UNCHANGED <<activeSessions, sessions, sessionHistory, realTimeAnalysis,
                 returned, crisisEvents, nextId, now, unitVars>>

\* The cap of a user's session history.
HistoryCap == 50

\* A variant of storeSessionHistory that stores nothing.
storeSessionHistory_skips(history, session) == history

\* storeSessionHistory(session), on the history map.
storeSessionHistory(history, session) ==
  LET userId == session.userId
      userHistory == IF userId \in DOMAIN history THEN history[userId] ELSE <<>>
      pushed == Append(userHistory, session.sessionId)
  IN  mapSet(history, userId,
             IF Len(pushed) > HistoryCap THEN sliceLast(pushed, HistoryCap) ELSE pushed)

\* endSession, resumed after updateTherapeuticPlan: the session is stored in
\* the history of its user and removed from the active sessions.
EndAfterUpdatePlan(c) ==
  /\ c \in DOMAIN calls
  /\ calls[c].op = "endSession"
  /\ calls[c].pc = "updateTherapeuticPlan"
  /\ sessionHistory' = storeSessionHistory(sessionHistory, sessions[calls[c].sessionId])
  /\ activeSessions' = activeSessions \ {calls[c].sessionId}
  /\ returned' = [ op |-> "endSession", kind |-> "ok",
                   sessionId |-> calls[c].sessionId,
                   sessionSummary |-> calls[c].sessionSummary ]
  /\ Finish(c)
  /\ UNCHANGED <<sessions, userPlans, plans, realTimeAnalysis, crisisEvents,
                 nextId, now, unitVars>>

\* identifyProtectiveFactors(session): the user messages, lowered and joined.
RECURSIVE joinLowered(_)
joinLowered(messages) ==
  IF Len(messages) = 0 THEN <<>>
  ELSE IF Len(messages) = 1 THEN LoweredText[messages[1]]
  ELSE LoweredText[messages[1]] \o <<32>> \o joinLowered(Tail(messages))

identifyProtectiveFactors(session) ==
  LET userMessages == SelectSeq(session.interactions,
                                LAMBDA i : i.type = "user_message")
      allText == joinLowered([k \in 1..Len(userMessages) |-> userMessages[k].content])
  IN  (IF includes(allText, kwFamily) \/ includes(allText, kwParivar)
       THEN <<"family_support">> ELSE <<>>)
      \o (IF includes(allText, kwFriends) \/ includes(allText, kwDost)
          THEN <<"social_connections">> ELSE <<>>)
      \o (IF includes(allText, kwFuture) \/ includes(allText, kwBhavishya)
          THEN <<"future_orientation">> ELSE <<>>)

\* generateImmediateActions(crisisLevel, indicators)
generateImmediateActions(crisisLevel) ==
  IF crisisLevel = "severe"
    THEN << "Contact emergency services immediately",
            "Do not leave the person alone",
            "Remove any means of self-harm",
            "Contact family/trusted person" >>
  ELSE IF crisisLevel = "high"
    THEN << "Schedule immediate professional consultation",
            "Activate support network",
            "Implement safety planning" >>
  ELSE IF crisisLevel = "moderate"
    THEN << "Increase session frequency",
            "Practice grounding techniques",
            "Connect with support person" >>
  ELSE <<>>

\* r => r.indicators, flattened over the risk assessments.
RECURSIVE flatIndicators(_)
flatIndicators(riskAssessments) ==
  IF Len(riskAssessments) = 0 THEN <<>>
  ELSE Head(riskAssessments).indicators \o flatIndicators(Tail(riskAssessments))

\* generateSafetyPlan(session, crisisLevel); its first entry names the
\* indicators of every assessment of the session.
generateSafetyPlan(session, crisisLevel) ==
  << [warningSigns |-> flatIndicators(session.riskAssessments)] >>
  \o << "Use coping strategies: deep breathing, grounding techniques",
        "Contact support person when feeling overwhelmed",
        "Contact mental health professional if symptoms worsen" >>
  \o (IF crisisLevel \in {"severe", "high"}
      THEN <<"Remove or secure potential means of harm">> ELSE <<>>)

\* A Date: null, or the clock reading plus a number of hours.
NullDate == [null |-> TRUE]

DatePlusHours(reading, hours) == [null |-> FALSE, reading |-> reading, plusHours |-> hours]

\* A variant of createFollowUpSchedule with the schedule of severe for every
\* level.
createFollowUpSchedule_alwaysSevere(crisisLevel, reading) ==
  [ immediate |-> DatePlusHours(reading, 2),
    shortTerm |-> DatePlusHours(reading, 24),
    longTerm |-> DatePlusHours(reading, 7 * 24) ]

\* createFollowUpSchedule(crisisLevel)
createFollowUpSchedule(crisisLevel, reading) ==
  IF crisisLevel = "severe"
    THEN [ immediate |-> DatePlusHours(reading, 2),
           shortTerm |-> DatePlusHours(reading, 24),
           longTerm |-> DatePlusHours(reading, 7 * 24) ]
  ELSE IF crisisLevel = "high"
    THEN [ immediate |-> DatePlusHours(reading, 24),
           shortTerm |-> DatePlusHours(reading, 3 * 24),
           longTerm |-> DatePlusHours(reading, 14 * 24) ]
  ELSE IF crisisLevel = "moderate"
    THEN [ immediate |-> NullDate,
           shortTerm |-> DatePlusHours(reading, 2 * 24),
           longTerm |-> DatePlusHours(reading, 7 * 24) ]
  ELSE [immediate |-> NullDate, shortTerm |-> NullDate, longTerm |-> NullDate]

\* handleCrisisIntervention, to its first await.  An unknown id throws at once.
\* The crisis assessment is being built, with its timestamp read, and awaits
\* identifyProtectiveFactors, which has read the interactions.
HandleCrisisCall(sessionId, crisisLevel, indicators) ==
  /\ CanCall
  /\ nextId' = nextId + 1
  /\ IF sessionId \notin activeSessions
     THEN /\ returned' = SessionNotFound("handleCrisisIntervention", sessionId)
          /\ UNCHANGED calls
     ELSE /\ Suspend([op |-> "handleCrisisIntervention",
                      pc |-> "identifyProtectiveFactors",
                      sessionId |-> sessionId, crisisLevel |-> crisisLevel,
                      indicators |-> indicators,
                      timestamp |-> now,
                      protectiveFactors |-> identifyProtectiveFactors(sessions[sessionId])])
          /\ UNCHANGED returned
  /\ UNCHANGED <<activeSessions, sessions, userPlans, plans, sessionHistory,
                 realTimeAnalysis, crisisEvents, now, unitVars>>

\* handleCrisisIntervention, resumed after identifyProtectiveFactors: the crisis
\* assessment is pushed, the actions are made and generateSafetyPlan is awaited.
CrisisAfterProtectiveFactors(c) ==
  /\ c \in DOMAIN calls
  /\ calls[c].op = "handleCrisisIntervention"
  /\ calls[c].pc = "identifyProtectiveFactors"
  /\ LET sessionId == calls[c].sessionId
         crisisAssessment ==
           [ timestamp |-> calls[c].timestamp,
             level |-> calls[c].crisisLevel,
             indicators |-> calls[c].indicators,
             protectiveFactors |-> calls[c].protectiveFactors,
             interventions |-> <<>>,
             followUpRequired |-> TRUE,
             professionalReferral |-> calls[c].crisisLevel = "severe" ]
         after == [sessions[sessionId] EXCEPT
                     !.riskAssessments = Append(@, crisisAssessment)]
     IN  /\ sessions' = [sessions EXCEPT ![sessionId] = after]
         /\ Resume(c, [ op |-> "handleCrisisIntervention", pc |-> "generateSafetyPlan",
                        sessionId |-> sessionId,
                        crisisLevel |-> calls[c].crisisLevel,
                        indicators |-> calls[c].indicators,
                        index |-> Len(after.riskAssessments),
                        immediateActions |-> generateImmediateActions(calls[c].crisisLevel),
                        safetyPlan |-> generateSafetyPlan(after, calls[c].crisisLevel) ])
  /\ UNCHANGED <<activeSessions, userPlans, plans, sessionHistory, realTimeAnalysis,
                 returned, crisisEvents, nextId, now, unitVars>>

\* handleCrisisIntervention, resumed after generateSafetyPlan: the schedule is
\* made, the interventions of the pushed assessment are set and the crisis
\* event is returned.
CrisisAfterSafetyPlan(c) ==
  /\ c \in DOMAIN calls
  /\ calls[c].op = "handleCrisisIntervention"
  /\ calls[c].pc = "generateSafetyPlan"
  /\ LET event == [ sessionId |-> calls[c].sessionId,
                    level |-> calls[c].crisisLevel,
                    indicators |-> calls[c].indicators,
                    immediateActions |-> calls[c].immediateActions,
                    safetyPlan |-> calls[c].safetyPlan,
                    followUpSchedule |-> createFollowUpSchedule(calls[c].crisisLevel, now) ]
     IN  /\ sessions' = [sessions EXCEPT
               ![calls[c].sessionId].riskAssessments[calls[c].index].interventions =
                  calls[c].immediateActions \o calls[c].safetyPlan]
         /\ crisisEvents' = Append(crisisEvents, event)
         /\ returned' = [ op |-> "handleCrisisIntervention", kind |-> "ok",
                          sessionId |-> calls[c].sessionId, event |-> event ]
  /\ Finish(c)
  /\ UNCHANGED <<activeSessions, userPlans, plans, sessionHistory, realTimeAnalysis,
                 nextId, now, unitVars>>

\* A variant of deleteUserData that clears the maps for every user.
DeleteUserData_everyUser(userId) ==
  /\ CanCall
  /\ nextId' = nextId + 1
  /\ activeSessions' = {}
  /\ sessionHistory' = EmptyMap
  /\ userPlans' = EmptyMap
  /\ returned' = [op |-> "deleteUserData", kind |-> "ok", userId |-> userId]
  /\ UNCHANGED <<sessions, plans, realTimeAnalysis, calls, crisisEvents, now, unitVars>>

\* deleteUserData(userId): it has no await.
DeleteUserData(userId) ==
  /\ CanCall
  /\ nextId' = nextId + 1
  /\ activeSessions' = {s \in activeSessions : sessions[s].userId # userId}
  /\ sessionHistory' = mapDelete(sessionHistory, userId)
  /\ userPlans' = mapDelete(userPlans, userId)
  /\ returned' = [op |-> "deleteUserData", kind |-> "ok", userId |-> userId]
  /\ UNCHANGED <<sessions, plans, realTimeAnalysis, calls, crisisEvents, now, unitVars>>

\* sessions.sort((a, b) => b.startTime.getTime() - a.startTime.getTime()) of
\* calculateStreak: latest start first, sessions with equal start times in the
\* order they had.
RECURSIVE sortByStartTime(_)
sortByStartTime(userHistory) ==
  IF Len(userHistory) <= 1 THEN userHistory
  ELSE LET front == sortByStartTime(SubSeq(userHistory, 1, Len(userHistory) - 1))
           last == userHistory[Len(userHistory)]
           ahead == Len(SelectSeq(front, LAMBDA sessionId :
                      sessions[sessionId].startTime >= sessions[last].startTime))
       IN  SubSeq(front, 1, ahead) \o <<last>> \o SubSeq(front, ahead + 1, Len(front))

\* The clock is read in seconds: a day of the clock.
DaySeconds == 24 * 60 * 60

\* timeframe: 'week' | 'month' | 'year'
Timeframes == {"week", "month", "year"}

\* startDate of the switch on timeframe: the reading less 7, 30 or 365 days.
startDateOf(timeframe, reading) ==
  reading - DaySeconds * (IF timeframe = "week" THEN 7
                          ELSE IF timeframe = "year" THEN 365
                          ELSE 30)

\* sessions.filter(session => session.startTime >= startDate)
sessionsSince(userHistory, startDate) ==
  SelectSeq(userHistory, LAMBDA sessionId : sessions[sessionId].startTime >= startDate)

\* getUserProgress(userId, timeframe): it has no await.  The clock is read, the
\* sessions of the history that started within the timeframe are counted, and
\* calculateStreak sorts the stored history in place.  Of the report the
\* timeframe and the two counts are kept.
GetUserProgress(userId, timeframe) ==
  /\ CanCall
  /\ nextId' = nextId + 1
  /\ LET reading == now
         userHistory == IF userId \in DOMAIN sessionHistory
                        THEN sessionHistory[userId] ELSE <<>>
     IN  returned' =
           [ op |-> "getUserProgress", kind |-> "ok", timeframe |-> timeframe,
             totalSessions |->
               Len(sessionsSince(userHistory, startDateOf(timeframe, reading))),
             sessionsThisWeek |->
               Len(sessionsSince(userHistory, reading - 7 * DaySeconds)) ]
  /\ sessionHistory' =
       IF userId \in DOMAIN sessionHistory
       THEN [sessionHistory EXCEPT ![userId] = sortByStartTime(@)]
       ELSE sessionHistory
  /\ UNCHANGED <<activeSessions, sessions, userPlans, plans, realTimeAnalysis, calls,
                 crisisEvents, now, unitVars>>

\* The clock is the environment's: every new Date() of the code reads it where
\* it stands, and no step of the program moves it.  It moves between the steps,
\* while it reads less than MaxTicks, by a second, an hour, or the days that
\* take a session out of the week, the month and the year of getUserProgress.
MaxTicks == 2

ElapsedTimes == {1, 60 * 60, 8 * DaySeconds, 31 * DaySeconds, 366 * DaySeconds}

ClockMoves(elapsed) ==
  /\ now < MaxTicks
  /\ now' = now + elapsed
  /\ UNCHANGED <<sessionVars, unitVars>>

Init == SessionInit /\ UnitIdle

Next ==
  \/ \E userId \in Users, sessionType \in SessionTypes :
       StartSessionCall(userId, sessionType)
  \/ \E c \in CallSlots : StartSessionCreate(c)
  \/ \E c \in CallSlots : StartAfterMonitoring(c)
  \/ \E sessionId \in SessionIds, userMessage \in TurnMessages, mode \in TurnModes :
       ProcessInteractionCall(sessionId, userMessage, mode.interactionType, mode.hasImage)
  \/ \E c \in CallSlots, outcome \in ImageOutcomes : ProcessAfterAnalyzeImage(c, outcome)
  \/ \E c \in CallSlots : ProcessAfterRisk(c)
  \/ \E c \in CallSlots, fault \in AnalysisFaults, generator \in GeneratorOutcomes :
       ProcessAfterGenerate(c, fault, generator)
  \/ \E sessionId \in SessionIds : EndSessionCall(sessionId)
  \/ \E c \in CallSlots : EndAfterReports(c)
  \/ \E c \in CallSlots : EndAfterGetPlan(c)
  \/ \E c \in CallSlots : EndAfterUpdatePlan(c)
  \/ \E sessionId \in SessionIds, crisisLevel \in CrisisLevels :
       HandleCrisisCall(sessionId, crisisLevel, <<"suicidal_ideation">>)
  \/ \E c \in CallSlots : CrisisAfterProtectiveFactors(c)
  \/ \E c \in CallSlots : CrisisAfterSafetyPlan(c)
  \/ \E userId \in Users : DeleteUserData(userId)
  \/ \E userId \in Users, timeframe \in Timeframes : GetUserProgress(userId, timeframe)
  \/ \E elapsed \in ElapsedTimes : ClockMoves(elapsed)

Spec == Init /\ [][Next]_vars

-----------------------------------------------------------------------------
(* SpecCrisis: assessCrisisLevel applied to every message of AllMessages. *)

CrisisInit ==
  /\ SessionInit
  /\ text \in AllMessages
  /\ result = NoResult
  /\ journey = <<>>
  /\ metrics = EmptyMap
  /\ chat = ChatMounted

\* One call assessCrisisLevel(text).
AssessText ==
  /\ ~result.done
  /\ result' = [done |-> TRUE, assessment |-> CrisisAssessmentOf[text]]
  /\ UNCHANGED <<sessionVars, now, text, journey, metrics, chat>>

\* The caller moves on to another text.
NextText ==
  /\ result.done
  /\ text' \in AllMessages
  /\ result' = NoResult
  /\ UNCHANGED <<sessionVars, now, journey, metrics, chat>>

CrisisNext == AssessText \/ NextText

SpecCrisis == CrisisInit /\ [][CrisisNext]_vars

\* The score assessCrisisLevel accumulates for each message, before the ladder.
CrisisScoreOf ==
  [m \in AllMessages |-> crisisScore(toLowerCase(MessageText(m)))]

\* C19: the level assessCrisisLevel returns follows the threshold table on the
\* accumulated score: 15 and above severe, 10..14 high, 5..9 moderate,
\* 2..4 low, below 2 none.
C19_LevelFollowsThresholdTable ==
  result.done =>
    LET score == CrisisScoreOf[text]
        level == result.assessment.level
    IN  /\ (score >= 15) => level = "severe"
        /\ (score >= 10 /\ score <= 14) => level = "high"
        /\ (score >= 5 /\ score <= 9) => level = "moderate"
        /\ (score >= 2 /\ score <= 4) => level = "low"
        /\ (score < 2) => level = "none"

\* A message whose only hit is an immediacy word was assessed: score 3,
\* level low.
C19_Witness ==
  /\ result.done
  /\ CrisisScoreOf[text] = 3
  /\ result.assessment.level = "low"

\* C3: in assessCrisisLevel, a suicidal-ideation phrase in the text forces
\* level severe, whatever the accumulated score.
C3_SuicidalIdeationForcesSevere ==
  (result.done /\ HasSuicidalIdeationOf[text])
    => result.assessment.level = "severe"


-----------------------------------------------------------------------------
(* The claims about the session manager, under Spec *)

\* A turn of processInteraction that returned to its caller.
TurnReturned ==
  /\ returned.op = "processInteraction"
  /\ returned.kind = "ok"

\* The processInteraction calls past the point where assessCurrentRisk is
\* computed for them.
AssessedCalls ==
  {c \in DOMAIN calls : /\ calls[c].op = "processInteraction"
                        /\ calls[c].pc \in {"assessCurrentRisk",
                                            "generateTherapeuticResponse"}}

\* C1: a turn whose message holds a phrase of the suicidal-ideation lexicon
\* gets a RiskAssessment of level severe, whatever protective-factor terms
\* the message holds and whatever the image analysis gave.
C1_SuicidalPhraseIsSevere ==
  /\ \A c \in AssessedCalls :
        HasSuicidalIdeationOf[calls[c].userMessage]
          => calls[c].riskAssessment.level = "severe"
  /\ (TurnReturned /\ HasSuicidalIdeationOf[returned.userMessage])
        => returned.riskAssessment.level = "severe"

\* A video turn returned for a message with a suicidal-ideation phrase and
\* the words family and friends, with the emotion read from the image.
C1_Witness ==
  /\ TurnReturned
  /\ HasSuicidalIdeationOf[returned.userMessage]
  /\ returned.riskAssessment.protectiveFactors = <<"social_support">>
  /\ Has(returned.emotionalAnalysis, "primaryEmotion")
  /\ returned.riskAssessment.level = "severe"



\* The sessions with a crisis event.
SessionsWithCrisisEvent ==
  {crisisEvents[i].sessionId : i \in 1..Len(crisisEvents)}

\* C2: a turn whose RiskAssessment is moderate, high or severe has produced a
\* CrisisEvent by the time it returns, and a turn assessed none or low has
\* produced none.
C2_CrisisEventIffModerateOrAbove ==
  TurnReturned =>
    (returned.riskAssessment.level \in {"moderate", "high", "severe"}
       <=> returned.sessionId \in SessionsWithCrisisEvent)

\* C4: no turn whose message analysis or risk assessment faulted returns a
\* result whose risk level is none.
C4_FaultNeverReturnsNone ==
  (TurnReturned /\ returned.analysisFaulted)
    => returned.aiResponse.riskAssessment.level # "none"

\* C5: the error of the image extractor is not propagated to the caller of
\* processInteraction: the turn completes.
C5_ExtractorFailureNotPropagated ==
  ~ /\ returned.op = "processInteraction"
    /\ returned.kind = "error"
    /\ returned.error = "Image analysis error"

\* C6: two processInteraction calls for one session id are never in progress
\* at the same time.
C6_SingleWriterPerSession ==
  \A c, d \in DOMAIN calls :
    (/\ c # d
     /\ calls[c].op = "processInteraction"
     /\ calls[d].op = "processInteraction")
      => calls[c].sessionId # calls[d].sessionId

\* C7: a turn whose RiskAssessment has level severe is answered with the
\* strategy crisis_intervention; stated for the turns whose message analysis
\* ran without a fault.
C7_SevereForcesCrisisIntervention ==
  (/\ TurnReturned
   /\ ~returned.analysisFaulted
   /\ returned.riskAssessment.level = "severe")
    => returned.aiResponse.interventionType = "crisis_intervention"



\* A step that is a call of one of the three handlers with the session id.
HandlerCalled(sessionId) ==
  \/ \E userMessage \in TurnMessages, mode \in TurnModes :
       ProcessInteractionCall(sessionId, userMessage, mode.interactionType, mode.hasImage)
  \/ EndSessionCall(sessionId)
  \/ \E crisisLevel \in CrisisLevels :
       HandleCrisisCall(sessionId, crisisLevel, <<"suicidal_ideation">>)

\* C10: processInteraction, endSession and handleCrisisIntervention called
\* with a session id that was never started or that has already ended fail at
\* once with the error "Session not found", and leave the active sessions, the
\* session objects, the histories and the plans as they were.
C10_SessionNotFoundChangesNothing ==
  [][ \A sessionId \in SessionIds :
        (sessionId \notin activeSessions /\ HandlerCalled(sessionId))
          => /\ returned'.kind = "error"
             /\ returned'.error = "Session not found"
             /\ returned'.sessionId = sessionId
             /\ UNCHANGED <<activeSessions, sessions, sessionHistory, userPlans,
                            plans, realTimeAnalysis, crisisEvents, calls>> ]_vars

\* processInteraction was called for a session that had ended and is stored in
\* the history of its user; the caller got the error.
C10_Witness ==
  /\ returned.op = "processInteraction"
  /\ returned.kind = "error"
  /\ returned.error = "Session not found"
  /\ returned.sessionId \in DOMAIN sessions
  /\ sessions[returned.sessionId].ended
  /\ returned.sessionId \notin activeSessions
  /\ sessionHistory # EmptyMap



-----------------------------------------------------------------------------
(* SpecMetrics: updateProgressMetrics applied turn after turn to the metrics *)
(* of a new session, for every sequence of intervention types and of the     *)
(* analyses processInteraction passes.  result holds the arguments of the    *)
(* last call.                                                                *)

\* The number of turns: therapeuticAlliance reaches 1 with the 25th.
MaxTurns == 27

\* The intervention types of the replies.
InterventionTypes == {"validation", "crisis_intervention"}

\* The analyses of the turns, as processInteraction passes them: the empty
\* analysis of a turn without image, or the result of analyzeImage.
TurnAnalyses == {AnalysisOf(key) : key \in AnalysisKeys}

MetricsInit ==
  /\ SessionInit
  /\ text = <<>>
  /\ result = [done |-> FALSE, turns |-> 0]
  /\ journey = <<>>
  /\ metrics = initializeProgressMetrics
  /\ chat = ChatMounted

\* this.updateProgressMetrics(session, aiResponse, emotionalAnalysis)
UpdateMetrics(interventionType, emotionalAnalysis) ==
  /\ result.turns < MaxTurns
  /\ metrics' = updateProgressMetrics(metrics, [interventionType |-> interventionType],
                                      emotionalAnalysis)
  /\ result' = [ done |-> TRUE, turns |-> result.turns + 1,
                 interventionType |-> interventionType,
                 emotionalAnalysis |-> emotionalAnalysis ]
  /\ UNCHANGED <<sessionVars, now, text, journey, chat>>

MetricsNext ==
  \E interventionType \in InterventionTypes, emotionalAnalysis \in TurnAnalyses :
    UpdateMetrics(interventionType, emotionalAnalysis)

SpecMetrics == MetricsInit /\ [][MetricsNext]_vars

\* C8: every field of the ProgressMetrics of a session stays within [0,1], in
\* hundredths 0..100, after any number of turns.
C8_ProgressMetricsWithinUnitInterval ==
  \A field \in DOMAIN metrics : metrics[field] \in 0..100

\* A validation turn with the result of analyzeImage was made after
\* engagementLevel and therapeuticAlliance had reached 1: both are held at 1
\* and emotionalRegulation is where it started.
C8_Witness ==
  /\ result.turns > 25
  /\ result.done
  /\ result.interventionType = "validation"
  /\ Has(result.emotionalAnalysis, "primaryEmotion")
  /\ metrics.engagementLevel = 100
  /\ metrics.therapeuticAlliance = 100
  /\ metrics.emotionalRegulation = 50

-----------------------------------------------------------------------------
(* SpecJourney: updateEmotionalJourney applied push after push to the        *)
(* journey of a new session.  result.arrivals is the history of the data     *)
(* points pushed.                                                            *)

\* The number of pushes, beyond the cap, and the number of pushes that may
\* carry the emotion sorrow; the others carry joy.
MaxPushes == 53

MaxMarked == 1

JourneyInit ==
  /\ SessionInit
  /\ text = <<>>
  /\ result = [done |-> FALSE, arrivals |-> <<>>, marked |-> 0]
  /\ journey = <<>>
  /\ metrics = EmptyMap
  /\ chat = ChatMounted

\* this.updateEmotionalJourney(session, emotionalAnalysis, 'facial')
PushJourney(primaryEmotion) ==
  /\ Len(result.arrivals) < MaxPushes
  /\ primaryEmotion = "sorrow" => result.marked < MaxMarked
  /\ journey' = updateEmotionalJourney(journey, EmotionDetectionResult(primaryEmotion),
                                       "facial", now)
  /\ result' = [ done |-> FALSE,
                 arrivals |-> Append(result.arrivals,
                    [timestamp |-> now, primaryEmotion |-> primaryEmotion]),
                 marked |-> result.marked + (IF primaryEmotion = "sorrow" THEN 1 ELSE 0) ]
  /\ UNCHANGED <<sessionVars, now, text, metrics, chat>>

JourneyNext ==
  \/ \E primaryEmotion \in FacialEmotions : PushJourney(primaryEmotion)
  \/ ClockMoves(1)

SpecJourney == JourneyInit /\ [][JourneyNext]_vars

\* C9: the journey never holds more than 50 entries, and it is the most
\* recent (at most 50) data points pushed, in the order of their arrival.
C9_JourneyKeepsTheLast50 ==
  LET n == Len(result.arrivals)
      k == IF n > 50 THEN 50 ELSE n
  IN  /\ Len(journey) <= 50
      /\ Len(journey) = k
      /\ \A i \in 1..k :
            /\ journey[i].timestamp = result.arrivals[n - k + i].timestamp
            /\ journey[i].primaryEmotion = result.arrivals[n - k + i].primaryEmotion
            /\ journey[i].source = "facial"

\* More than 50 data points were pushed: the first one, of sorrow and read
\* at second 0, is gone; the journey starts with a later one, of joy and read
\* at second 1, and ends with the last one, read at second 2.
C9_Witness ==
  /\ Len(result.arrivals) > 50
  /\ result.arrivals[1].primaryEmotion = "sorrow"
  /\ result.arrivals[1].timestamp = 0
  /\ Len(journey) = 50
  /\ journey[1].primaryEmotion = "joy"
  /\ journey[1].timestamp = 1
  /\ journey[50].timestamp = 2



-----------------------------------------------------------------------------
(* The claims about the life of a session and the data kept, under Spec *)

\* C11: when endSession returns, its session is no longer in the active
\* sessions and is, with its end time set, the newest entry of the history of
\* its user; and a session that has left the active sessions never enters
\* them again.
C11_EndedSessionIsArchived ==
  [][ /\ \A c \in DOMAIN calls :
           EndAfterUpdatePlan(c) =>
             LET sessionId == calls[c].sessionId
                 userId == sessions[sessionId].userId
             IN  /\ returned'.op = "endSession"
                 /\ returned'.kind = "ok"
                 /\ sessionId \notin activeSessions'
                 /\ userId \in DOMAIN sessionHistory'
                 /\ Len(sessionHistory'[userId]) > 0
                 /\ sessionHistory'[userId][Len(sessionHistory'[userId])] = sessionId
                 /\ sessions'[sessionId].ended
      /\ \A sessionId \in DOMAIN sessions :
           sessionId \notin activeSessions => sessionId \notin activeSessions' ]_vars

\* endSession returned for a session that had a turn: the session is out of
\* the active sessions and is the newest entry of its user's history.
C11_Witness ==
  /\ returned.op = "endSession"
  /\ returned.kind = "ok"
  /\ returned.sessionId \notin activeSessions
  /\ sessions[returned.sessionId].ended
  /\ Len(sessions[returned.sessionId].interactions) > 0
  /\ LET userId == sessions[returned.sessionId].userId
     IN  /\ userId \in DOMAIN sessionHistory
         /\ sessionHistory[userId][Len(sessionHistory[userId])] = returned.sessionId



\* The entry of a map for a key, or the mark of a missing entry.
EntryOf(map, key) == IF key \in DOMAIN map THEN <<map[key]>> ELSE <<>>

\* C12: when deleteUserData(userId) returns, no active session, no history
\* and no plan of that user remains, and the active sessions, the histories
\* and the plans of the other users are as they were before the call.
C12_DeleteUserDataFrame ==
  [][ \A userId \in Users :
        DeleteUserData(userId) =>
          /\ \A s \in activeSessions' : sessions'[s].userId # userId
          /\ userId \notin DOMAIN sessionHistory'
          /\ userId \notin DOMAIN userPlans'
          /\ \A s \in activeSessions :
                sessions[s].userId # userId
                  => s \in activeSessions' /\ sessions'[s] = sessions[s]
          /\ activeSessions' \subseteq activeSessions
          /\ \A other \in Users \ {userId} :
                /\ EntryOf(sessionHistory', other) = EntryOf(sessionHistory, other)
                /\ EntryOf(userPlans', other) = EntryOf(userPlans, other)
                /\ other \in DOMAIN userPlans
                     => plans'[userPlans[other]] = plans[userPlans[other]] ]_vars

\* deleteUserData returned for u1, whose session is gone from the active
\* sessions, while the session and the plan of u2 are in place.
C12_Witness ==
  /\ returned.op = "deleteUserData"
  /\ returned.userId = "u1"
  /\ \E s \in DOMAIN sessions : sessions[s].userId = "u1" /\ s \notin activeSessions
  /\ \E s \in activeSessions : sessions[s].userId = "u2"
  /\ "u1" \notin DOMAIN userPlans
  /\ "u2" \in DOMAIN userPlans



\* The sessions the manager still holds: the active ones and the ones in the
\* history of a user.
HeldSessions ==
  activeSessions \cup
    UNION {{sessionHistory[u][j] : j \in 1..Len(sessionHistory[u])} :
             u \in DOMAIN sessionHistory}

\* The crisis assessment that handleCrisisIntervention pushed for the event is
\* in the risk assessments of a session the manager holds.
CrisisRecordHeld(event) ==
  /\ event.sessionId \in HeldSessions
  /\ \E k \in 1..Len(sessions[event.sessionId].riskAssessments) :
       LET assessment == sessions[event.sessionId].riskAssessments[k]
       IN  /\ assessment.level = event.level
           /\ assessment.indicators = event.indicators
           /\ assessment.interventions = event.immediateActions \o event.safetyPlan

\* C13: the record of every crisis event produced is retained as it was
\* recorded, also after its session has ended and after deleteUserData for
\* its user.
C13_CrisisRecordsRetained ==
  \A i \in 1..Len(crisisEvents) : CrisisRecordHeld(crisisEvents[i])



-----------------------------------------------------------------------------
(* SpecPure: assessCurrentRisk and assessCrisisLevel invoked twice with the  *)
(* same message and the same emotion analysis, the clock running on          *)
(* between the two invocations.                                              *)

\* The emotion analyses of the invocations: none, and one of high intensity
\* and low valence.
SignalAnalyses == {EmptyAnalysis, [intensity |-> 90, valence |-> -60]}

PureInit ==
  /\ SessionInit
  /\ text \in AllMessages
  /\ result = [done |-> FALSE, calls |-> <<>>]
  /\ journey = <<>>
  /\ metrics = EmptyMap
  /\ chat = ChatMounted

\* One invocation of both aggregators on the text and the analysis; the second
\* invocation takes the analysis of the first.
InvokeAggregators(emotionalAnalysis) ==
  /\ Len(result.calls) < 2
  /\ Len(result.calls) = 1 => emotionalAnalysis = result.calls[1].emotionalAnalysis
  /\ result' = [ done |-> Len(result.calls) = 1,
                 calls |-> Append(result.calls,
                   [ emotionalAnalysis |-> emotionalAnalysis,
                     riskAssessment |-> assessCurrentRiskAt(MessageText(text),
                                                            emotionalAnalysis, now),
                     crisisAssessment |-> CrisisAssessmentOf[text] ]) ]
  /\ UNCHANGED <<sessionVars, now, text, journey, metrics, chat>>

\* Time passes: the clock moves on a second.
Tick == ClockMoves(1)

PureNext ==
  \/ \E emotionalAnalysis \in SignalAnalyses : InvokeAggregators(emotionalAnalysis)
  \/ Tick

SpecPure == PureInit /\ [][PureNext]_vars

\* C14: two invocations of the risk aggregation with the same text and the
\* same emotion analysis return assessments that are equal in every field.
C14_AggregationIsPure ==
  result.done =>
    /\ result.calls[1].riskAssessment = result.calls[2].riskAssessment
    /\ result.calls[1].crisisAssessment = result.calls[2].crisisAssessment



-----------------------------------------------------------------------------
(* SpecMonotone: a message is assessed, a further phrase is added in front   *)
(* of it or after it, and it is assessed again, by assessCrisisLevel and by  *)
(* assessCurrentRisk with the same emotion analysis.                         *)

\* type CrisisLevel and RiskAssessment['level'], in their order.
LevelOrder == <<"none", "low", "moderate", "high", "severe">>

LevelRank(level) == CHOOSE i \in 1..Len(LevelOrder) : LevelOrder[i] = level

\* The levels the two aggregators give a message.
LevelsOf(m, emotionalAnalysis) ==
  [ crisis |-> CrisisAssessmentOf[m].level,
    risk |-> assessCurrentRisk(MessageText(m), emotionalAnalysis).level ]

MonotoneInit ==
  /\ SessionInit
  /\ text \in {m \in AllMessages : Len(m) < MaxPhrases}
  /\ \E emotionalAnalysis \in SignalAnalyses :
       result = [done |-> FALSE, emotionalAnalysis |-> emotionalAnalysis]
  /\ journey = <<>>
  /\ metrics = EmptyMap
  /\ chat = ChatMounted

\* The phrase is added to the message and the longer message is assessed.
AddPhrase(phrase, inFront) ==
  /\ Len(text) < MaxPhrases
  /\ text' = IF inFront THEN <<phrase>> \o text ELSE Append(text, phrase)
  /\ result' = [ done |-> TRUE,
                 emotionalAnalysis |-> result.emotionalAnalysis,
                 before |-> LevelsOf(text, result.emotionalAnalysis),
                 after |-> LevelsOf(text', result.emotionalAnalysis) ]
  /\ UNCHANGED <<sessionVars, now, journey, metrics, chat>>

MonotoneNext ==
  \E phrase \in 1..Len(Phrases), inFront \in BOOLEAN : AddPhrase(phrase, inFront)

SpecMonotone == MonotoneInit /\ [][MonotoneNext]_vars

\* C15: adding a phrase to a message never lowers the level, in the order
\* none < low < moderate < high < severe, for either aggregator.
C15_LevelIsMonotonic ==
  result.done =>
    /\ LevelRank(result.after.crisis) >= LevelRank(result.before.crisis)
    /\ LevelRank(result.after.risk) >= LevelRank(result.before.risk)

\* A phrase with a plan, an end and an immediacy word was added to a message
\* assessed high or lower, and the level rose to severe.
C15_Witness ==
  /\ result.done
  /\ result.before.crisis \in {"moderate", "high"}
  /\ result.after.crisis = "severe"
  /\ result.before.risk = "none"
  /\ result.after.risk = "severe"



-----------------------------------------------------------------------------
(* The claims about the crisis tables, under Spec *)

\* A date of the schedule is the creation time plus the hours.
IsAfter(date, creation, hours) ==
  /\ ~date.null
  /\ date.reading = creation
  /\ date.plusHours = hours

\* The event follows the table of its level, with the creation time given.
FollowsLevelTable(event, creation) ==
  LET schedule == event.followUpSchedule
  IN  /\ event.level = "severe" =>
            /\ \E a \in 1..Len(event.immediateActions) :
                  event.immediateActions[a] = "Contact emergency services immediately"
            /\ IsAfter(schedule.immediate, creation, 2)
            /\ IsAfter(schedule.shortTerm, creation, 24)
            /\ IsAfter(schedule.longTerm, creation, 168)
      /\ event.level = "high" =>
            /\ IsAfter(schedule.immediate, creation, 24)
            /\ IsAfter(schedule.shortTerm, creation, 72)
            /\ IsAfter(schedule.longTerm, creation, 336)
      /\ event.level = "moderate" =>
            /\ schedule.immediate.null
            /\ IsAfter(schedule.shortTerm, creation, 48)
            /\ IsAfter(schedule.longTerm, creation, 168)

\* C16: the crisis event that handleCrisisIntervention returns follows the
\* table of its level: for severe the action to contact emergency services
\* and follow-ups 2 hours, 24 hours and 7 days after the creation; for high
\* 24 hours, 3 days and 14 days; for moderate 2 days and 7 days and no
\* immediate follow-up.
C16_EscalationFollowsLevelTable ==
  [][ \A c \in DOMAIN calls :
        CrisisAfterSafetyPlan(c) =>
          /\ returned'.op = "handleCrisisIntervention"
          /\ returned'.event.level = calls[c].crisisLevel
          /\ FollowsLevelTable(returned'.event, now) ]_vars

\* A severe crisis event was returned with the emergency action and the first
\* follow-up two hours after its creation; the clock had moved on an hour
\* between the call, which stamped the crisis assessment, and the creation.
C16_Witness ==
  /\ returned.op = "handleCrisisIntervention"
  /\ returned.kind = "ok"
  /\ returned.event.level = "severe"
  /\ returned.event.immediateActions[1] = "Contact emergency services immediately"
  /\ now = 60 * 60
  /\ returned.event.followUpSchedule.immediate = DatePlusHours(now, 2)
  /\ sessions[returned.sessionId].riskAssessments[1].timestamp = 0
  /\ sessions[returned.sessionId].riskAssessments[1].professionalReferral



-----------------------------------------------------------------------------
(* SpecChat: the AICompanion component.  The user sends messages and         *)
(* dismisses the crisis banner; each handleSendMessage runs to its await of  *)
(* generateAIResponse and is resumed when the reply arrives or fails.        *)

\* The number of messages sent.
MaxSends == 2

\* The messages typed: one phrase each, with no blank around it, so that
\* inputValue.trim() is the text and is not empty.
ChatMessages == {<<phrase>> : phrase \in 1..Len(Phrases)}

\* The mood of the user message.
moodOf(crisisAssessment) ==
  IF crisisAssessment.level = "none" THEN "neutral"
  ELSE IF crisisAssessment.level = "severe" \/ crisisAssessment.level = "high"
    THEN "crisis"
  ELSE "negative"

ChatInit ==
  /\ SessionInit
  /\ text = <<>>
  /\ result = NoResult
  /\ journey = <<>>
  /\ metrics = EmptyMap
  /\ chat = ChatMounted

\* initializeChat, resumed: setMessages([greeting]) with the generated
\* greeting or, when generateEmpathicResponse threw, with the fallback
\* greeting.  The list is replaced: the messages added meanwhile are gone.
GreetingArrives(outcome) ==
  /\ chat.initializing
  /\ chat' = [ chat EXCEPT
                 !.messages = << [sender |-> "ai", kind |-> outcome] >>,
                 !.initializing = FALSE ]
  /\ UNCHANGED <<sessionVars, now, text, result, journey, metrics>>

\* handleSendMessage, to its await: the text is assessed, the user message is
\* added, the typing mark is set and the banner is shown when
\* shouldShowCrisisResources holds.
SendMessage(m) ==
  /\ chat.sends < MaxSends
  /\ LET crisisAssessment == CrisisAssessmentOf[m]
     IN  chat' = [ messages |-> Append(chat.messages,
                     [sender |-> "user", kind |-> "message", content |-> m,
                      mood |-> moodOf(crisisAssessment)]),
                   initializing |-> chat.initializing,
                   isTyping |-> TRUE,
                   showCrisisSupport |->
                     IF shouldShowCrisisResources(crisisAssessment)
                     THEN TRUE ELSE chat.showCrisisSupport,
                   sending |-> Append(chat.sending, m),
                   sends |-> chat.sends + 1 ]
  /\ UNCHANGED <<sessionVars, now, text, result, journey, metrics>>

\* handleSendMessage, resumed: the reply or, when generateAIResponse threw,
\* the error message is added and the typing mark is cleared.
ReplyArrives(i, outcome) ==
  /\ i \in 1..Len(chat.sending)
  /\ chat' = [ chat EXCEPT
                 !.messages = Append(@, [sender |-> "ai", kind |-> outcome]),
                 !.isTyping = FALSE,
                 !.sending = SubSeq(@, 1, i - 1) \o SubSeq(@, i + 1, Len(@)) ]
  /\ UNCHANGED <<sessionVars, now, text, result, journey, metrics>>

\* onClick of the button of the banner: setShowCrisisSupport(false)
DismissCrisisSupport ==
  /\ chat.showCrisisSupport
  /\ chat' = [chat EXCEPT !.showCrisisSupport = FALSE]
  /\ UNCHANGED <<sessionVars, now, text, result, journey, metrics>>

ChatNext ==
  \/ \E outcome \in {"greeting", "fallback_greeting"} : GreetingArrives(outcome)
  \/ \E m \in ChatMessages : SendMessage(m)
  \/ \E i \in 1..MaxSends, outcome \in {"reply", "error"} : ReplyArrives(i, outcome)
  \/ DismissCrisisSupport

SpecChat == ChatInit /\ [][ChatNext]_vars

\* C17: sending a message that holds a crisis keyword shows the crisis
\* banner in the handling of that send, before the reply has arrived or
\* failed, and the banner stays shown until the user dismisses it.
C17_CrisisKeywordShowsBanner ==
  [][ /\ \A m \in ChatMessages :
           (SendMessage(m) /\ HasCrisisKeywordOf[m]) => chat'.showCrisisSupport
      /\ (chat.showCrisisSupport /\ ~DismissCrisisSupport)
           => chat'.showCrisisSupport ]_vars

\* After the greeting, a message with a crisis keyword was sent, its reply
\* failed, a message without one was sent after it, and the banner is shown.
C17_Witness ==
  /\ chat.showCrisisSupport
  /\ Len(chat.messages) >= 4
  /\ chat.messages[1].kind = "greeting"
  /\ chat.messages[2].sender = "user"
  /\ HasCrisisKeywordOf[chat.messages[2].content]
  /\ chat.messages[3].kind = "error"
  /\ chat.messages[4].sender = "user"
  /\ chat.messages[4].mood = "neutral"

-----------------------------------------------------------------------------
(* SpecRespond: aiOrchestrator.generateTherapeuticResponse applied to every *)
(* message of AllMessages, with every step of the analysis failing in turn  *)
(* and every text the generator can hand back.                              *)

RespondInit ==
  /\ SessionInit
  /\ text \in AllMessages
  /\ result = NoResult
  /\ journey = <<>>
  /\ metrics = EmptyMap
  /\ chat = ChatMounted

\* One call generateTherapeuticResponse(text, userId), resolved.
Respond(fault, generator) ==
  /\ ~result.done
  /\ result' = [ done |-> TRUE, fault |-> fault, generator |-> generator,
                 response |-> generateTherapeuticResponse(MessageText(text),
                                                          fault, generator) ]
  /\ UNCHANGED <<sessionVars, now, text, journey, metrics, chat>>

\* The caller moves on to another message.
NextMessage ==
  /\ result.done
  /\ text' \in AllMessages
  /\ result' = NoResult
  /\ UNCHANGED <<sessionVars, now, journey, metrics, chat>>

RespondNext ==
  \/ \E fault \in AnalysisFaults, generator \in GeneratorReplies :
       Respond(fault, generator)
  \/ NextMessage

SpecRespond == RespondInit /\ [][RespondNext]_vars

\* C18: generateTherapeuticResponse always resolves with a response whose
\* message is a non-empty text, for every message, whichever step of the
\* analysis fails and whatever the generator hands back, the empty text
\* included.
C18_ResponseAlwaysHasMessage ==
  result.done =>
    /\ Has(result.response, "message")
    /\ result.response.message # ""
    /\ Has(result.response, "interventionType")

\* The cultural analysis failed, the call still resolved, with the fallback
\* response.
C18_Witness ==
  /\ result.done
  /\ Has(result, "fault")
  /\ result.fault = "cultural"
  /\ result.response.message = "fallback"
  /\ result.response.interventionType = "validation"

\* type TherapeuticResponse['interventionType'] (aiOrchestrator.ts 10)
InterventionVocabulary ==
  { "validation", "cognitive_restructuring", "mindfulness",
    "crisis_intervention", "psychoeducation", "behavioral_activation" }

\* C20: the intervention strategy tag of every response is one of validation,
\* cognitive_restructuring, mindfulness, crisis_intervention,
\* behavioral_activation, psychoeducation.
C20_StrategyTagInVocabulary ==
  result.done => result.response.interventionType \in InterventionVocabulary

-----------------------------------------------------------------------------
(* SpecEmotion: analyzeEmotionalContent applied to every message of         *)
(* AllMessages.                                                              *)

\* One call analyzeEmotionalContent(text), resolved.
AnalyzeEmotion ==
  /\ ~result.done
  /\ result' = [ done |-> TRUE,
                 emotional |-> analyzeEmotionalContent(MessageText(text)) ]
  /\ UNCHANGED <<sessionVars, now, text, journey, metrics, chat>>

EmotionNext == AnalyzeEmotion \/ NextText

SpecEmotion == CrisisInit /\ [][EmotionNext]_vars

\* C21: the primary emotion is the category with the most keyword hits, the
\* first of them in the order anxiety, depression, stress, anger, joy when
\* several categories share the highest count.
C21_PrimaryEmotionHasMostHits ==
  result.done =>
    LET hitCounts == result.emotional.hitCounts
        most == CHOOSE n \in {hitCounts[i] : i \in 1..Len(emotionOrder)} :
                  \A i \in 1..Len(emotionOrder) : hitCounts[i] <= n
        first == CHOOSE i \in 1..Len(emotionOrder) :
                   /\ hitCounts[i] = most
                   /\ \A j \in 1..(i - 1) : hitCounts[j] < most
    IN  most > 0 => result.emotional.primaryEmotion = emotionOrder[first]

-----------------------------------------------------------------------------
(* Further claims about the session manager, under Spec *)

\* session.riskAssessments of a session object.
RiskHistory(map, sessionId) == map[sessionId].riskAssessments

\* C22: a turn appends exactly one RiskAssessment to the risk history of its
\* session, and the history is append-only: an entry that is in the history
\* keeps its position and the values of all its fields in every later step.
C22_RiskHistoryAppendOnly ==
  [][ /\ \A c \in CallSlots :
           ProcessAfterRisk(c) =>
             Len(RiskHistory(sessions', calls[c].sessionId))
               = Len(RiskHistory(sessions, calls[c].sessionId)) + 1
      /\ \A sessionId \in DOMAIN sessions :
           /\ sessionId \in DOMAIN sessions'
           /\ Len(RiskHistory(sessions', sessionId))
                >= Len(RiskHistory(sessions, sessionId))
           /\ \A i \in 1..Len(RiskHistory(sessions, sessionId)) :
                RiskHistory(sessions', sessionId)[i]
                  = RiskHistory(sessions, sessionId)[i] ]_vars

\* session.emotionalJourney of a session object.
Journey(map, sessionId) == map[sessionId].emotionalJourney

\* C23: every turn, text-only turns included, appends its emotion signal to
\* the emotional journey of the session before the risk assessment of the turn
\* is computed: the step of a turn that goes on to assessCurrentRisk has
\* added a data point to the journey.
C23_EveryTurnAppendsToJourney ==
  [][ /\ \A sessionId \in SessionIds, userMessage \in TurnMessages, mode \in TurnModes :
           ( /\ ProcessInteractionCall(sessionId, userMessage,
                                       mode.interactionType, mode.hasImage)
             /\ sessionId \in activeSessions
             /\ ~(mode.interactionType = "video" /\ mode.hasImage) )
             => Len(Journey(sessions', sessionId)) = Len(Journey(sessions, sessionId)) + 1
      /\ \A c \in CallSlots, outcome \in ImageOutcomes \ {"throws"} :
           ProcessAfterAnalyzeImage(c, outcome)
             => Len(Journey(sessions', calls[c].sessionId))
                  = Len(Journey(sessions, calls[c].sessionId)) + 1 ]_vars

\* The RiskAssessment object of the turn is in the risk history of the
\* session: the history has the place the turn pushed it to, and the entry
\* there is the object of the turn, its timestamp included.
Recorded(call) ==
  /\ call.index \in 1..Len(RiskHistory(sessions, call.sessionId))
  /\ RiskHistory(sessions, call.sessionId)[call.index] = call.riskAssessment

\* C24: while a turn waits for the reply generator, the RiskAssessment object
\* of that turn is already in the risk history of the session, at the place
\* the turn pushed it to: the step that goes on to the generator has added
\* it as the newest entry.  The step that takes the reply leaves the risk
\* history as it was, and when the generator failed the turn still returns,
\* with the substituted message.
C24_RiskRecordedBeforeGenerator ==
  /\ [](\A c \in DOMAIN calls :
          (calls[c].op = "processInteraction"
             /\ calls[c].pc = "generateTherapeuticResponse")
            => Recorded(calls[c]))
  /\ [][ \A c \in CallSlots :
           (/\ c \in DOMAIN calls
            /\ calls[c].op = "processInteraction"
            /\ calls[c].pc = "assessCurrentRisk"
            /\ c \in DOMAIN calls'
            /\ calls'[c].pc = "generateTherapeuticResponse") =>
             RiskHistory(sessions', calls[c].sessionId)
               = Append(RiskHistory(sessions, calls[c].sessionId),
                        calls[c].riskAssessment) ]_vars
  /\ [][ \A c \in CallSlots, fault \in AnalysisFaults, generator \in GeneratorOutcomes :
           ProcessAfterGenerate(c, fault, generator) =>
             /\ Recorded(calls[c])
             /\ RiskHistory(sessions', calls[c].sessionId)
                  = RiskHistory(sessions, calls[c].sessionId)
             /\ returned'.kind = "ok"
             /\ returned'.riskAssessment = calls[c].riskAssessment
             /\ (fault = "none" /\ generator = "demo")
                  => returned'.aiResponse.message = "demo"
             /\ (fault = "cultural") => returned'.aiResponse.message = "fallback" ]_vars

\* The second turn of a session returned with the substituted message of the
\* failed generator.  Its assessment is equal to the one of the first turn in
\* every field, the timestamp included, and both are in the risk history.
C24_Witness ==
  /\ TurnReturned
  /\ returned.aiResponse.message = "demo"
  /\ returned.riskAssessment.level = "severe"
  /\ Len(RiskHistory(sessions, returned.sessionId)) = 2
  /\ RiskHistory(sessions, returned.sessionId)[1] = returned.riskAssessment
  /\ RiskHistory(sessions, returned.sessionId)[2] = returned.riskAssessment

\* C25: for every turn, the risk level inside the reply returned to the caller
\* (aiResponse.riskAssessment.level, from the orchestrator) equals the level of
\* the RiskAssessment the session manager recorded for that turn.
C25_ReplyLevelEqualsRecordedLevel ==
  TurnReturned =>
    returned.aiResponse.riskAssessment.level = returned.riskAssessment.level

\* The sessions held in sessionHistory, for any user.
ArchivedSessions ==
  UNION { {sessionHistory[userId][i] : i \in 1..Len(sessionHistory[userId])} :
          userId \in DOMAIN sessionHistory }

\* C26: once endSession has archived a session, the interactions, the
\* emotional journey, the risk history and the progress metrics of the
\* archived session never change again, whatever call was suspended when
\* endSession ran.
C26_ArchivedSessionIsFrozen ==
  [][ \A sessionId \in ArchivedSessions :
        /\ sessions'[sessionId].interactions = sessions[sessionId].interactions
        /\ sessions'[sessionId].emotionalJourney = sessions[sessionId].emotionalJourney
        /\ sessions'[sessionId].riskAssessments = sessions[sessionId].riskAssessments
        /\ sessions'[sessionId].progressMetrics = sessions[sessionId].progressMetrics ]_vars

\* C27: an ended session is in the history of its user exactly once, and at
\* most one endSession call for a session id completes: a completing
\* endSession finds the session not yet archived, and it stores the session
\* once.
C27_SessionArchivedOnce ==
  /\ [](\A userId \in DOMAIN sessionHistory :
          \A i, j \in 1..Len(sessionHistory[userId]) :
            sessionHistory[userId][i] = sessionHistory[userId][j] => i = j)
  /\ [][ \A c \in CallSlots :
           EndAfterUpdatePlan(c) =>
             /\ calls[c].sessionId \notin ArchivedSessions
             /\ calls[c].sessionId \in ArchivedSessions' ]_vars

\* deleteUserData(userId) has returned and startSession was not called for
\* the user since: the user has no history and no plan, every session of the
\* user left the active sessions without staying archived, and no startSession
\* of the user is in progress.
DeletedAndNotRestarted(userId) ==
  /\ userId \notin DOMAIN sessionHistory
  /\ userId \notin DOMAIN userPlans
  /\ \E sessionId \in DOMAIN sessions : sessions[sessionId].userId = userId
  /\ \A sessionId \in DOMAIN sessions :
       sessions[sessionId].userId = userId => sessionId \notin activeSessions
  /\ \A c \in DOMAIN calls :
       calls[c].op = "startSession" => calls[c].userId # userId

\* C28: after deleteUserData(userId) has returned, no history entry and no
\* therapeutic plan of the user reappears unless startSession is called again
\* for the user, whatever call was suspended when the deletion ran.
C28_DeletionIsDurable ==
  [][ \A userId \in Users :
        ( /\ DeletedAndNotRestarted(userId)
          /\ \A sessionType \in SessionTypes : ~StartSessionCall(userId, sessionType) )
          => /\ userId \notin DOMAIN sessionHistory'
             /\ userId \notin DOMAIN userPlans' ]_vars

\* The interactions of the given type in session.interactions.
InteractionsOfType(session, type) ==
  Len(SelectSeq(session.interactions, LAMBDA interaction : interaction.type = type))

\* The processInteraction calls of the session that have not returned.
TurnsInProgress(inFlight, sessionId) ==
  { c \in DOMAIN inFlight :
      inFlight[c].op = "processInteraction" /\ inFlight[c].sessionId = sessionId }

\* C29: a processInteraction that fails with an error leaves nothing of the
\* failed turn in the session: when the turn has thrown, every user message
\* recorded in the session belongs to a turn that recorded its reply or to a
\* turn still in progress.
C29_FailedTurnLeavesNothing ==
  [][ \A c \in CallSlots :
        ProcessAfterAnalyzeImage(c, "throws") =>
          LET sessionId == calls[c].sessionId
          IN  /\ returned'.kind = "error"
              /\ InteractionsOfType(sessions'[sessionId], "user_message")
                   = InteractionsOfType(sessions'[sessionId], "ai_response")
                       + Cardinality(TurnsInProgress(calls', sessionId)) ]_vars

\* No call is suspended at an await.
Quiescent == calls = EmptyMap

\* C30: at every quiescent state the real-time monitoring table holds an
\* entry for a session id only if the session is active and of type voice or
\* video; an ended session and a session of a deleted user have no entry.
C30_MonitoringOnlyForActiveSessions ==
  Quiescent =>
    \A sessionId \in realTimeAnalysis :
      /\ sessionId \in activeSessions
      /\ sessions[sessionId].sessionType \in {"voice", "video"}


=============================================================================
